---- MODULE Spec2Model ----
(***************************************************************************)
(* A model of the baremp3 decoder front end: ID3v2 skip, sync search,      *)
(* frame-header and side-information parsing, the main-data reservoir and  *)
(* the frame loop of decode_frame / decode_whole / get_format_information. *)
(*                                                                         *)
(* Bytes are integers 0..255, a slice is a sequence (index i of the code   *)
(* is element i+1 here).  A usize that wrapped in a release build is kept  *)
(* as its negative representative (2^w - k is written -k); the U* helpers  *)
(* compare such representatives the way unsigned integers compare.         *)
(***************************************************************************)
EXTENDS Integers, Sequences, FiniteSets, TLC

(* ------------------------------------------------------------------ *)
(* Program constants                                                   *)
(* ------------------------------------------------------------------ *)
MP3_FRAMEHEADER_SIZE == 4
MP3_SIDEINFORMATION_SIZE_MONO == 17
MP3_SIDEINFORMATION_SIZE_STEREO == 32
MP3_MAINDATA_BUFFER_SIZE == 4096
MP3_MAINDATA_BUFFER_SIZE_BITS == 8 * MP3_MAINDATA_BUFFER_SIZE
MP3_NUM_SAMPLES_PER_FRAME == 1152
MP3_NUM_GRANLES_PER_FRAME == 2
MP3_NUM_SAMPLES_PER_GRANULE == MP3_NUM_SAMPLES_PER_FRAME \div MP3_NUM_GRANLES_PER_FRAME
MP3_MAX_NUM_CHANNELS == 2
ID3V2HEADER_SIZE == 10

(* ------------------------------------------------------------------ *)
(* Slices, bits and unsigned arithmetic                                *)
(* ------------------------------------------------------------------ *)
At(d, i) == d[i + 1]

\* &d[from..]; the caller checks from <= Len(d) (Rust panics otherwise)
SliceFrom(d, from) == SubSeq(d, from + 1, Len(d))

\* &d[from..to]
Slice(d, from, to) == SubSeq(d, from + 1, to)

Pow2Table ==
    << 1, 2, 4, 8, 16, 32, 64, 128, 256, 512, 1024, 2048, 4096, 8192, 16384,
       32768, 65536, 131072, 262144, 524288, 1048576, 2097152, 4194304,
       8388608, 16777216 >>

Pow2(n) == Pow2Table[n + 1]

\* byte i of a slice, 0 past its end
ByteOrZero(d, i) == IF i < Len(d) THEN d[i + 1] ELSE 0

\* BitReader::read_uN(n) at bit position pos, for n <= 16 bits that lie in
\* the slice: the bits of the three bytes from the one holding bit pos on,
\* most significant first, cut to the n bits that start at pos
ReadBits(d, pos, n) ==
    LET a == pos \div 8
        three == 65536 * d[a + 1] + 256 * ByteOrZero(d, a + 1) + ByteOrZero(d, a + 2)
    IN (three \div Pow2(24 - (pos % 8) - n)) % Pow2(n)

\* unsigned comparison of representatives (a negative one is 2^w - k)
ULt(a, b) == IF (a < 0) = (b < 0) THEN a < b ELSE b < 0
UGe(a, b) == ~ULt(a, b)
UGt(a, b) == ULt(b, a)
UMin(a, b) == IF ULt(b, a) THEN b ELSE a

(* ------------------------------------------------------------------ *)
(* Frame header                                                        *)
(* ------------------------------------------------------------------ *)
BitRateTable ==
    << 0, 32000, 40000, 48000, 56000, 64000, 80000, 96000,
       112000, 128000, 160000, 192000, 224000, 256000, 320000 >>

SamplingRateTable == << 44100, 48000, 32000 >>

ChannelModeTable == << "Stereo", "JointStereo", "DualChannel", "Monoral" >>

NoHeader == [some |-> FALSE]

\* decode_frame_header: None when the slice is short, the sync code is
\* missing, or a field holds a value the match rejects
decode_frame_header(d) ==
    IF Len(d) < MP3_FRAMEHEADER_SIZE THEN NoHeader
    ELSE IF ReadBits(d, 0, 12) # 4095 THEN NoHeader
    ELSE LET version == ReadBits(d, 12, 1)
             layer == 4 - ReadBits(d, 13, 2)
             prot == ReadBits(d, 15, 1)
             br == ReadBits(d, 16, 4)
             sr == ReadBits(d, 20, 2)
             pad == ReadBits(d, 22, 1)
             ext == ReadBits(d, 23, 1)
             cm == ReadBits(d, 24, 2)
             flags == ReadBits(d, 26, 2)
         IN IF layer \notin {1, 2, 3} THEN NoHeader
            ELSE IF br > 14 THEN NoHeader
            ELSE IF sr > 2 THEN NoHeader
            ELSE [ some |-> TRUE,
                   version |-> IF version = 0 THEN "MPEGVersion2" ELSE "MPEGVersion1",
                   layer |-> layer,
                   error_protection |-> (prot = 0),
                   bit_rate |-> BitRateTable[br + 1],
                   sampling_rate |-> SamplingRateTable[sr + 1],
                   padding |-> (pad = 1),
                   extension |-> ext,
                   channel_mode |-> ChannelModeTable[cm + 1],
                   ext_channel_mode |->
                       IF flags % 2 # 0 THEN "IntensityStereo"
                       ELSE IF flags \div 2 # 0 THEN "MSStereo" ELSE "NONE",
                   copyright |-> (ReadBits(d, 28, 1) = 1),
                   original |-> (ReadBits(d, 29, 1) = 1),
                   emphasis |-> ReadBits(d, 30, 2) ]

\* get_sideinformation_size!
get_sideinformation_size(header) ==
    IF header.channel_mode = "Monoral" THEN MP3_SIDEINFORMATION_SIZE_MONO
    ELSE MP3_SIDEINFORMATION_SIZE_STEREO

(* ------------------------------------------------------------------ *)
(* Side information                                                    *)
(* ------------------------------------------------------------------ *)
GranuleBits == 59

BlockTypeTable == << "Normal", "Start", "Short", "Stop" >>

decode_granule_information_unmixed(d, o) ==
    LET wsf == ReadBits(d, o + 33, 1) = 1
        bt == ReadBits(d, o + 34, 2)
        r0 == IF wsf THEN (IF bt = 2 THEN 8 ELSE 7) ELSE ReadBits(d, o + 49, 4)
    IN [ valid |-> ~(wsf /\ bt = 0),
         part2_3_length |-> ReadBits(d, o, 12),
         big_values |-> ReadBits(d, o + 12, 9),
         global_gain |-> ReadBits(d, o + 21, 8),
         scalefac_compress |-> ReadBits(d, o + 29, 4),
         window_switching_flag |-> wsf,
         block_type |-> IF wsf THEN BlockTypeTable[bt + 1] ELSE "Normal",
         mixed_block_flag |-> wsf /\ ReadBits(d, o + 36, 1) = 1,
         region0_count |-> r0,
         region1_count |-> IF wsf THEN 20 - r0 ELSE ReadBits(d, o + 53, 3) ]

\* one granule of one channel, read at bit offset o of the side block
decode_granule_information(d, o) ==
    LET wsf == ReadBits(d, o + 33, 1) = 1
        bt == ReadBits(d, o + 34, 2)
        mixed == ReadBits(d, o + 36, 1) = 1
        r0 == IF wsf
              THEN (IF bt = 2 /\ ~mixed THEN 8 ELSE 7)
              ELSE ReadBits(d, o + 49, 4)
    IN [ valid |-> ~(wsf /\ bt = 0),
         part2_3_length |-> ReadBits(d, o, 12),
         big_values |-> ReadBits(d, o + 12, 9),
         global_gain |-> ReadBits(d, o + 21, 8),
         scalefac_compress |-> ReadBits(d, o + 29, 4),
         window_switching_flag |-> wsf,
         block_type |-> IF wsf THEN BlockTypeTable[bt + 1] ELSE "Normal",
         mixed_block_flag |-> wsf /\ mixed,
         region0_count |-> r0,
         region1_count |-> IF wsf THEN 20 - r0 ELSE ReadBits(d, o + 53, 3) ]

NoSideInformation == [some |-> FALSE]

\* the granules of the side block in reading order, the first at bit offset
\* base: gr[k + 1] is granule k \div num_channels of channel k % num_channels
granule_informations(d, base, num_channels) ==
    IF num_channels = 1
    THEN << decode_granule_information(d, base),
            decode_granule_information(d, base + GranuleBits) >>
    ELSE << decode_granule_information(d, base),
            decode_granule_information(d, base + GranuleBits),
            decode_granule_information(d, base + 2 * GranuleBits),
            decode_granule_information(d, base + 3 * GranuleBits) >>

\* the side information once its granules grs are read: None for a
\* granule with window switching and block type 0
side_information_of(d, num_channels, grs) ==
    IF \E k \in DOMAIN grs : ~grs[k].valid THEN NoSideInformation
    ELSE [ some |-> TRUE,
           maindata_begin |-> ReadBits(d, 0, 9),
           num_channels |-> num_channels,
           gr |-> grs ]

\* the side block of num_channels channels: main_data_begin (9 bits), the
\* private bits (5 or 3), scfsi (4 per channel), then the granules
read_side_information(d, num_channels) ==
    side_information_of(d, num_channels,
        granule_informations(d, 9 + (IF num_channels = 1 THEN 5 ELSE 3)
                                  + 4 * num_channels, num_channels))

decode_side_information_anyversion(header, d) ==
    IF Len(d) < get_sideinformation_size(header) THEN NoSideInformation
    ELSE read_side_information(d, IF header.channel_mode = "Monoral" THEN 1 ELSE 2)

\* decode_side_information: None for MPEG-2, for a short slice, and for a
\* granule with window switching and block type 0
decode_side_information(header, d) ==
    IF header.version # "MPEGVersion1" THEN NoSideInformation
    ELSE IF Len(d) < get_sideinformation_size(header) THEN NoSideInformation
    ELSE read_side_information(d, IF header.channel_mode = "Monoral" THEN 1 ELSE 2)

(* ------------------------------------------------------------------ *)
(* Frame size, sync search, frame information                          *)
(* ------------------------------------------------------------------ *)
\* get_maindata_size.  ovf: a subtraction went below zero, which panics in
\* a build with overflow checks and wraps in one without; size is then the
\* wrapped value's representative.
get_maindata_size_nopadding(header) ==
    LET s0 == (144 * header.bit_rate) \div header.sampling_rate
        s1 == s0 - MP3_FRAMEHEADER_SIZE
        s2 == s1 - get_sideinformation_size(header)
        s4 == IF header.error_protection THEN s2 - 2 ELSE s2
    IN [ ovf |-> s4 < 0, size |-> s4 ]

get_maindata_size(header) ==
    LET s0 == (144 * header.bit_rate) \div header.sampling_rate
        s1 == s0 - MP3_FRAMEHEADER_SIZE
        s2 == s1 - get_sideinformation_size(header)
        s3 == IF header.padding THEN s2 + 1 ELSE s2
        s4 == IF header.error_protection THEN s3 - 2 ELSE s3
    IN [ ovf |-> s1 < 0 \/ s2 < 0 \/ (header.error_protection /\ s3 \in 0..1),
         size |-> s4 ]

NoSync == [some |-> FALSE]

\* the loop of find_sync_code: pattern is the u32 shift register, kept as
\* its four bytes, most significant first
RECURSIVE find_sync_loop(_, _, _)
find_sync_loop(d, pos, pattern) ==
    IF pos >= Len(d) - 1 THEN NoSync
    ELSE LET p == << pattern[2], pattern[3], pattern[4], At(d, pos) >>
         IN IF p[3] = 255 /\ p[4] \div 16 = 15
            THEN [some |-> TRUE, pos |-> pos - 1]
            ELSE find_sync_loop(d, pos + 1, p)

find_sync_code(d) ==
    IF Len(d) < 2 THEN NoSync
    ELSE find_sync_loop(d, 1, << 0, 0, 0, At(d, 0) >>)

FrameInfoError(res) ==
    [ res |-> res, header_size |-> 0, maindata_size |-> 0,
      header |-> NoHeader, side_info |-> NoSideInformation, ovf |-> FALSE ]

\* frame_information_of without the CRC skip: the main data is taken to
\* start right after the side information
frame_information_of_noskip(d, sync_pos, header, side) ==
    IF ~side.some THEN FrameInfoError("InvalidSideInformation")
    ELSE LET rp2 == sync_pos + MP3_FRAMEHEADER_SIZE + get_sideinformation_size(header)
         IN [ res |-> "Ok",
              header_size |-> rp2,
              maindata_size |-> UMin(Len(d) - rp2, get_maindata_size(header).size),
              header |-> header,
              side_info |-> side,
              ovf |-> (Len(d) - rp2 < 0 \/ get_maindata_size(header).ovf) ]

\* decode_frame_information once the side information is read: the CRC is
\* skipped after it, and the main data is what the slice still holds, at
\* most get_maindata_size.  ovf: the remaining-length subtraction or
\* get_maindata_size overflowed.
frame_information_of(d, sync_pos, header, side) ==
    IF ~side.some THEN FrameInfoError("InvalidSideInformation")
    ELSE LET rp2 == sync_pos + MP3_FRAMEHEADER_SIZE + get_sideinformation_size(header)
             rp3 == IF header.error_protection THEN rp2 + 2 ELSE rp2
         IN [ res |-> "Ok",
              header_size |-> rp3,
              maindata_size |-> UMin(Len(d) - rp3, get_maindata_size(header).size),
              header |-> header,
              side_info |-> side,
              ovf |-> (Len(d) - rp3 < 0 \/ get_maindata_size(header).ovf) ]

\* decode_frame_information once the header at the sync word is read
frame_information_after_header(d, sync_pos, header) ==
    IF ~header.some THEN FrameInfoError("InvalidHeader")
    ELSE frame_information_of(d, sync_pos, header,
             decode_side_information(header,
                 SliceFrom(d, sync_pos + MP3_FRAMEHEADER_SIZE)))

\* decode_frame_information once the sync word is searched
frame_information_at(d, sync) ==
    IF ~sync.some THEN FrameInfoError("EndOfStream")
    ELSE frame_information_after_header(d, sync.pos,
             decode_frame_header(SliceFrom(d, sync.pos)))

\* decode_frame_information
decode_frame_information(d) == frame_information_at(d, find_sync_code(d))

\* get_id3v2tag_size
get_id3v2tag_size(d) ==
    IF Len(d) < ID3V2HEADER_SIZE THEN [res |-> "InvalidHeader", size |-> 0]
    ELSE IF At(d, 0) # 73 \/ At(d, 1) # 68 \/ At(d, 2) # 51 THEN [res |-> "Ok", size |-> 0]
    ELSE [ res |-> "Ok",
           size |-> At(d, 6) * Pow2(21) + At(d, 7) * Pow2(14)
                    + At(d, 8) * Pow2(7) + At(d, 9) ]

(* ------------------------------------------------------------------ *)
(* Main-data reservoir (MP3MainDataBuffer)                             *)
(* ------------------------------------------------------------------ *)
\* the ring's bytes are a tuple: buffer[i] of the code is element i + 1
RECURSIVE Zeros(_)
Zeros(n) ==
    IF n = 0 THEN << >>
    ELSE LET h == Zeros(n \div 2)
         IN IF n % 2 = 0 THEN h \o h ELSE h \o h \o << 0 >>

ZeroBuffer == Zeros(MP3_MAINDATA_BUFFER_SIZE)

\* MP3MainDataBuffer::new
MP3MainDataBuffer_new ==
    [ buffer |-> ZeroBuffer, write_pos |-> 0, read_pos_bits |-> 0 ]

\* MP3MainDataBuffer::reset
MP3MainDataBuffer_reset(b) ==
    [ buffer |-> ZeroBuffer, write_pos |-> 0, read_pos_bits |-> 0 ]

\* put_data panics when the part wrapped to the head does not fit the ring
put_data_panics(b, d) ==
    /\ b.write_pos + Len(d) > MP3_MAINDATA_BUFFER_SIZE
    /\ Len(d) - (MP3_MAINDATA_BUFFER_SIZE - b.write_pos) > MP3_MAINDATA_BUFFER_SIZE

\* MP3MainDataBuffer::put_data
put_data(b, d) ==
    LET size == Len(d)
    IN IF b.write_pos + size > MP3_MAINDATA_BUFFER_SIZE
       THEN LET tail_size == MP3_MAINDATA_BUFFER_SIZE - b.write_pos
                head_pos == size - tail_size
                tail == SubSeq(d, 1, tail_size)
                head == SubSeq(d, tail_size + 1, size)
            IN [ b EXCEPT
                   !.buffer = IF head_pos <= b.write_pos
                              THEN head \o SubSeq(b.buffer, head_pos + 1, b.write_pos) \o tail
                              ELSE head \o SubSeq(tail, head_pos - b.write_pos + 1, tail_size),
                   !.write_pos = head_pos ]
       ELSE [ b EXCEPT
                !.buffer = SubSeq(b.buffer, 1, b.write_pos) \o d
                           \o SubSeq(b.buffer, b.write_pos + size + 1,
                                     MP3_MAINDATA_BUFFER_SIZE),
                !.write_pos = b.write_pos + size ]

\* MP3MainDataBuffer::align_next_byte
align_next_byte(b) ==
    [ b EXCEPT !.read_pos_bits =
        (((b.read_pos_bits + 7) \div 8) * 8) % MP3_MAINDATA_BUFFER_SIZE_BITS ]

\* MP3MainDataBuffer::skip
skip(b, nbits) ==
    [ b EXCEPT !.read_pos_bits = (b.read_pos_bits + nbits) % MP3_MAINDATA_BUFFER_SIZE_BITS ]

\* MP3MainDataBuffer::seek
seek(b, position) == [ b EXCEPT !.read_pos_bits = position ]

\* MP3MainDataBuffer::get_bits, for the cursor: reading nbits moves it on
\* and past the ring's end back to its start; a run of calls reading nbits
\* in all moves it the same way
get_bits(b, nbits) ==
    [ b EXCEPT !.read_pos_bits =
        IF nbits = 0 THEN b.read_pos_bits
        ELSE IF b.read_pos_bits + nbits >= MP3_MAINDATA_BUFFER_SIZE_BITS
        THEN (b.read_pos_bits + nbits) % MP3_MAINDATA_BUFFER_SIZE_BITS
        ELSE b.read_pos_bits + nbits ]

(* ------------------------------------------------------------------ *)
(* Decoder (MP3Decoder)                                                *)
(* ------------------------------------------------------------------ *)
\* MP3SynthesisBuffer::new / reset: the overlap and FIFO history of one
\* channel, abstracted to whether a granule has been synthesised into it
MP3SynthesisBuffer_new == "cleared"

MP3SynthesisBuffer_reset(sb) == "cleared"

\* mp3_hybrid_synthesis: runs the filter bank of each processed channel
mp3_hybrid_synthesis(synth, num_channels) ==
    [ch \in 0..(MP3_MAX_NUM_CHANNELS - 1) |->
        IF ch < num_channels THEN "used" ELSE synth[ch]]

\* MP3Decoder::new
MP3Decoder_new ==
    [ maindata_buffer |-> MP3MainDataBuffer_new,
      synth_buffer |-> [ch \in 0..(MP3_MAX_NUM_CHANNELS - 1) |-> MP3SynthesisBuffer_new],
      maindata_start |-> 0 ]

reset_keeps_maindata_start(dec) ==
    [ maindata_buffer |-> MP3MainDataBuffer_reset(dec.maindata_buffer),
      synth_buffer |-> [ch \in DOMAIN dec.synth_buffer |->
                           MP3SynthesisBuffer_reset(dec.synth_buffer[ch])],
      maindata_start |-> dec.maindata_start ]

\* MP3Decoder::reset
reset(dec) ==
    [ maindata_buffer |-> MP3MainDataBuffer_reset(dec.maindata_buffer),
      synth_buffer |-> [ch \in DOMAIN dec.synth_buffer |->
                           MP3SynthesisBuffer_reset(dec.synth_buffer[ch])],
      maindata_start |-> 0 ]

\* the granule loop of decode_maindata, from reading-order index k on:
\* decode_huffman leaves the cursor at part3_end whatever the scale factors
\* and the Huffman codes consumed; its assertion on big_values panics
RECURSIVE decode_granules(_, _, _)
decode_granules(b, side_info, k) ==
    IF k > MP3_NUM_GRANLES_PER_FRAME * side_info.num_channels - 1
    THEN [panic |-> FALSE, buf |-> b]
    ELSE LET \* the loop runs granule-major, like the side block is read
             granule == side_info.gr[k + 1]
             part2_start == b.read_pos_bits
             part3_end == (part2_start + granule.part2_3_length)
                              % MP3_MAINDATA_BUFFER_SIZE_BITS
         IN IF 2 * granule.big_values > MP3_NUM_SAMPLES_PER_GRANULE
            THEN [panic |-> TRUE, buf |-> b]
            ELSE decode_granules(seek(b, part3_end), side_info, k + 1)

\* MP3Decoder::decode_maindata.  skipped: it returned before the granule
\* loop; start_bits: the read cursor when the granule loop begins;
\* synthesised: mp3_hybrid_synthesis was called
decode_maindata(dec, header, side_info) ==
    LET b1 == align_next_byte(dec.maindata_buffer)
        prev_maindata_end == b1.read_pos_bits \div 8
        maindata_offset == prev_maindata_end + side_info.maindata_begin
        ms == dec.maindata_start
        direct == UGe(ms, maindata_offset)
        short == ~direct /\ ULt(MP3_MAINDATA_BUFFER_SIZE + ms, maindata_offset)
        discard_bytes == IF direct THEN ms - maindata_offset
                         ELSE MP3_MAINDATA_BUFFER_SIZE + ms - maindata_offset
    IN IF short
       THEN [ panic |-> FALSE, skipped |-> TRUE, start_bits |-> b1.read_pos_bits,
              synthesised |-> FALSE,
              dec |-> [dec EXCEPT !.maindata_buffer = b1] ]
       ELSE LET b2 == skip(b1, discard_bytes * 8)
                ms1 == ms + get_maindata_size(header).size
                ms2 == IF UGt(ms1, MP3_MAINDATA_BUFFER_SIZE)
                       THEN ms1 - MP3_MAINDATA_BUFFER_SIZE ELSE ms1
                g == decode_granules(b2, side_info, 0)
            IN [ panic |-> g.panic, skipped |-> FALSE, start_bits |-> b2.read_pos_bits,
                 synthesised |-> ~g.panic,
                 dec |-> [ maindata_buffer |-> g.buf,
                           synth_buffer |->
                               IF g.panic THEN dec.synth_buffer
                               ELSE mp3_hybrid_synthesis(dec.synth_buffer,
                                                         side_info.num_channels),
                           maindata_start |-> ms2 ] ]

FrameResult(res, dec, ovf) ==
    [ res |-> res, dec |-> dec, size |-> 0, appended |-> 0, skipped |-> FALSE,
      start_bits |-> 0, synthesised |-> FALSE, num_channels |-> 0, ovf |-> ovf ]

\* what decode_frame returns once decode_maindata has run on the frame
frame_decoded(fi, md) ==
    [ res |-> IF md.panic THEN "Panic" ELSE "Ok",
      dec |-> md.dec,
      size |-> fi.header_size + fi.maindata_size,
      appended |-> fi.maindata_size,
      skipped |-> md.skipped,
      start_bits |-> md.start_bits,
      synthesised |-> md.synthesised,
      num_channels |-> fi.side_info.num_channels,
      ovf |-> fi.ovf ]

\* the slice &data[header_size..header_size + maindata_size] is out of
\* range, or put_data's own slices are
put_panics(dec, d, fi) ==
    \/ fi.header_size + fi.maindata_size > Len(d)
    \/ fi.header_size > fi.header_size + fi.maindata_size
    \/ put_data_panics(dec.maindata_buffer,
           Slice(d, fi.header_size, fi.header_size + fi.maindata_size))

\* the decoder with the frame's main data appended to the reservoir
put_frame(dec, d, fi) ==
    [ dec EXCEPT !.maindata_buffer =
        put_data(dec.maindata_buffer,
                 Slice(d, fi.header_size, fi.header_size + fi.maindata_size)) ]

insufficient(fi, buffer_len) ==
    \/ fi.header.channel_mode # "Monoral" /\ buffer_len < 2
    \/ fi.header.channel_mode = "Monoral" /\ buffer_len < 1

decode_frame_puts_first_with(dec, d, buffer_len, fi) ==
    IF fi.res # "Ok" THEN FrameResult(fi.res, dec, fi.ovf)
    ELSE IF put_panics(dec, d, fi) THEN FrameResult("Panic", dec, fi.ovf)
    ELSE IF insufficient(fi, buffer_len)
         THEN FrameResult("InsufficientBuffer", put_frame(dec, d, fi), fi.ovf)
    ELSE frame_decoded(fi, decode_maindata(put_frame(dec, d, fi),
                                           fi.header, fi.side_info))

decode_frame_puts_first(dec, d, buffer_len) ==
    decode_frame_puts_first_with(dec, d, buffer_len, decode_frame_information(d))

\* decode_frame once decode_frame_information has returned fi: the channel
\* check, then put_data, then decode_maindata
decode_frame_with(dec, d, buffer_len, fi) ==
    IF fi.res # "Ok" THEN FrameResult(fi.res, dec, fi.ovf)
    ELSE IF insufficient(fi, buffer_len)
         THEN FrameResult("InsufficientBuffer", dec, fi.ovf)
    ELSE IF put_panics(dec, d, fi) THEN FrameResult("Panic", dec, fi.ovf)
    ELSE frame_decoded(fi, decode_maindata(put_frame(dec, d, fi),
                                           fi.header, fi.side_info))

\* MP3Decoder::decode_frame on slice d with a frame buffer of buffer_len
\* channels.  size is the bytes_consumed it returns, appended the length of
\* the slice handed to put_data.  ovf: decode_frame_information overflowed,
\* which in a build with overflow checks panics before anything is changed.
decode_frame(dec, d, buffer_len) ==
    decode_frame_with(dec, d, buffer_len, decode_frame_information(d))

(* ------------------------------------------------------------------ *)
(* Input streams                                                       *)
(* ------------------------------------------------------------------ *)
\* bounds of the input family
MaxFrames == 2

BitsOf(v, w) == [i \in 1..w |-> (v \div Pow2(w - i)) % 2]

RECURSIVE ConcatFields(_)
ConcatFields(fs) ==
    IF fs = << >> THEN << >>
    ELSE BitsOf(Head(fs)[1], Head(fs)[2]) \o ConcatFields(Tail(fs))

BytesOf(bits) ==
    [j \in 1..(Len(bits) \div 8) |->
        LET o == 8 * (j - 1)
        IN 128 * bits[o + 1] + 64 * bits[o + 2] + 32 * bits[o + 3] + 16 * bits[o + 4]
           + 8 * bits[o + 5] + 4 * bits[o + 6] + 2 * bits[o + 7] + bits[o + 8]]

Fill(n, v) == [i \in 1..n |-> v]

\* A frame description: the header fields as the bitstream codes them
\* (ver 1 = MPEG-1, lay 1 = Layer III, 2 = Layer II, 3 = Layer I), whether a
\* CRC follows, and the side-information fields every granule gets (mixed,
\* r0 and r1, the mixed-block flag and the region counts, are 0 unless set).
Frame(ver, lay, crc, br, sr, pad, cm, mb, p23, bigv, wsf, bt) ==
    [ ver |-> ver, lay |-> lay, crc |-> crc, br |-> br, sr |-> sr, pad |-> pad,
      cm |-> cm, mb |-> mb, p23 |-> p23, bigv |-> bigv, wsf |-> wsf, bt |-> bt,
      mixed |-> 0, r0 |-> 0, r1 |-> 0 ]

FrameChannels(k) == IF k.cm = 3 THEN 1 ELSE 2

HeaderBytes(k) ==
    BytesOf(ConcatFields(<<
        <<4095, 12>>, <<k.ver, 1>>, <<k.lay, 2>>, <<1 - k.crc, 1>>,
        <<k.br, 4>>, <<k.sr, 2>>, <<k.pad, 1>>, <<0, 1>>,
        <<k.cm, 2>>, <<0, 2>>, <<0, 1>>, <<0, 1>>, <<0, 2>> >>))

GranuleFields(k) ==
    << <<k.p23, 12>>, <<k.bigv, 9>>, <<0, 8>>, <<0, 4>>, <<k.wsf, 1>> >>
    \o (IF k.wsf = 1
        THEN << <<k.bt, 2>>, <<k.mixed, 1>>, <<0, 10>>, <<0, 9>> >>
        ELSE << <<0, 15>>, <<k.r0, 4>>, <<k.r1, 3>> >>)
    \o << <<0, 3>> >>

SideBytes(k) ==
    LET n == FrameChannels(k)
        g == GranuleFields(k)
    IN BytesOf(ConcatFields(
           << <<k.mb, 9>>, <<0, IF n = 1 THEN 5 ELSE 3>>, <<0, 4 * n>> >>
           \o g \o g \o (IF n = 2 THEN g \o g ELSE << >>)))

\* Layer III bitrates (kbit/s) and sampling rates (Hz) by their header codes
FormatKbps == << 32, 40, 48, 56, 64, 80, 96, 112, 128, 160, 192, 224, 256, 320 >>
FormatHz == << 44100, 48000, 32000 >>

\* the frame length the bitstream format gives a frame of bitrate code 1..14
FrameBytes(k) == (144000 * FormatKbps[k.br]) \div FormatHz[k.sr + 1] + k.pad

SideBytesLen(k) == IF k.cm = 3 THEN 17 ELSE 32

PayloadLen(k) == FrameBytes(k) - 4 - SideBytesLen(k) - 2 * k.crc

\* the bytes of frame k, its payload filled with byte v
EncodeFrame(k, v) ==
    HeaderBytes(k) \o SideBytes(k) \o (IF k.crc = 1 THEN << 18, 52 >> ELSE << >>)
    \o Fill(PayloadLen(k), v)

RECURSIVE EncodeFrames(_, _)
EncodeFrames(ks, i) ==
    IF ks = << >> THEN << >>
    ELSE EncodeFrame(Head(ks), i) \o EncodeFrames(Tail(ks), i + 1)

MonoFrame == Frame(1, 1, 0, 1, 1, 0, 3, 0, 40, 0, 0, 0)
StereoFrame == Frame(1, 1, 0, 1, 1, 0, 0, 0, 24, 3, 1, 2)
CrcPadFrame == Frame(1, 1, 1, 1, 0, 1, 3, 5, 9, 0, 0, 0)
Mpeg2Frame == Frame(0, 1, 0, 1, 1, 0, 3, 0, 0, 0, 0, 0)
Layer2Frame == Frame(1, 2, 0, 1, 1, 0, 3, 0, 16, 0, 0, 0)

OtherKinds == { StereoFrame, CrcPadFrame, Mpeg2Frame, Layer2Frame }

\* the frame sequences: up to MaxFrames mono frames, one of them possibly
\* replaced by a frame of another kind
FrameSeqs ==
    UNION { { [i \in 1..n |-> MonoFrame] }
            \cup { [i \in 1..n |-> IF i = j THEN k ELSE MonoFrame] :
                      j \in 1..n, k \in OtherKinds } : n \in 0..MaxFrames }

\* the ten bytes of an ID3v2 tag header: "ID3", version, flags and the body
\* size in four 7-bit bytes
ID3Header(size) == << 73, 68, 51, 3, 0, 0, 0, 0, size \div 128, size % 128 >>

\* what precedes the first frame: nothing, bytes without a sync word, an
\* ID3v2 tag with a body of four bytes, a tag whose body holds the bytes of a
\* frame, a tag header announcing more bytes than the stream has
Prefixes ==
    { [name |-> "none", bytes |-> << >>],
      [name |-> "junk", bytes |-> << 0, 255, 7 >>],
      [name |-> "junk12", bytes |-> Fill(12, 9)],
      [name |-> "id3", bytes |-> ID3Header(4) \o Fill(4, 0)],
      [name |-> "id3frame",
       bytes |-> ID3Header(FrameBytes(MonoFrame)) \o EncodeFrame(MonoFrame, 0)],
      [name |-> "id3long", bytes |-> ID3Header(1000)] }

\* what follows the last frame: nothing, bytes without a sync word, a sync
\* word cut after three bytes
Tails ==
    { [name |-> "none", bytes |-> << >>],
      [name |-> "junk", bytes |-> << 5, 6 >>],
      [name |-> "cut", bytes |-> << 255, 251, 16 >>] }

(* ------------------------------------------------------------------ *)
(* The caller's output arrays                                          *)
(* ------------------------------------------------------------------ *)
\* An output array of len samples is kept as its whole 1152-sample blocks:
\* "old" is what the caller had there, "zero" the frame buffer's initial
\* 0.0, "pcm" samples the filter bank produced.
OutputArray(len, v) ==
    [ len |-> len, blk |-> [i \in 1..(len \div MP3_NUM_SAMPLES_PER_FRAME) |-> v] ]

FullLen == MP3_NUM_SAMPLES_PER_FRAME * MaxFrames

OutputShapes ==
    { << >>, << FullLen >>, << FullLen, 0 >>, << FullLen, FullLen >>,
      << FullLen, MP3_NUM_SAMPLES_PER_FRAME >> }

(* ------------------------------------------------------------------ *)
(* State                                                               *)
(* ------------------------------------------------------------------ *)
VARIABLES
    stream,   \* the description the input was built from
    data,     \* the input bytes
    build,    \* "any", or "release" once an overflow has wrapped
    dec,      \* the MP3Decoder
    pos,      \* the caller's position in data between decode_frame calls
    pc,       \* "start" (no input yet), "idle", "whole" (in decode_whole's
              \* loop), "format", "crashed"
    last,     \* the last completed call and what it returned
    w,        \* decode_whole's locals
    output,   \* the output arrays handed to decode_whole
    f,        \* get_format_information's locals
    fres,     \* what get_format_information returned last
    hf,       \* the granule decode_huffman is working on, and its locals
    wav,      \* the command-line program's WAV writer loop
    rd        \* the reads of a caller of the reservoir's get_bits

vars == << stream, data, build, dec, pos, pc, last, w, output, f, fres, hf, wav, rd >>

\* the decoder's positions before a call, and whether it was as constructed
Positions(d) ==
    [ write_pos |-> d.maindata_buffer.write_pos,
      read_pos_bits |-> d.maindata_buffer.read_pos_bits,
      maindata_start |-> d.maindata_start,
      fresh |-> (d = MP3Decoder_new) ]

NoCall ==
    [ op |-> "none", res |-> "none", buffer_len |-> 0, at |-> 0, size |-> 0,
      appended |-> 0, skipped |-> FALSE, start_bits |-> 0, synthesised |-> FALSE,
      changed |-> FALSE, num_samples |-> 0, before |-> Positions(MP3Decoder_new) ]

NoLocals == [ num_channels |-> 0, read_pos |-> 0, num_samples |-> 0,
              buffer |-> << "zero", "zero" >>, first |-> FALSE ]

NoFormat == [ res |-> "none", num_channels |-> 0, num_samples |-> 0,
              sampling_rate |-> 0, bit_rate |-> 0, read_pos |-> 0 ]

NoStream == [ pre |-> "none", pre_len |-> 0, frames |-> << >>, tail |-> "none" ]

NoGranule == [ phase |-> "none" ]

NoWav == [ phase |-> "none", smpl |-> 0, ch |-> 0, index |-> 0 ]

\* no read yet: from is the cursor before the last get_bits, nbits its
\* argument, ret its return value as 32 bits, total the bits read so far
NoRead == [ phase |-> "none", from |-> 0, nbits |-> 0, ret |-> << >>, total |-> 0 ]

\* a decoder just constructed; the caller has not read its input yet
Init ==
    /\ stream = NoStream
    /\ data = << >>
    /\ build = "any"
    /\ dec = MP3Decoder_new
    /\ pos = 0
    /\ pc = "start"
    /\ last = NoCall
    /\ w = NoLocals
    /\ output = << >>
    /\ f = NoFormat
    /\ fres = NoFormat
    /\ hf = NoGranule
    /\ wav = NoWav
    /\ rd = NoRead

\* the builds a call may be running in, told apart by whether overflow is
\* checked: only a call that overflows (ovf) tells them apart, and once an
\* overflow has wrapped the build is one without checks
Checks(ovf) == IF ovf /\ build # "release" THEN { TRUE, FALSE } ELSE { FALSE }

\* what decode_frame, computed as r0 from decoder d0, does in each build: in
\* one with overflow checks an overflow panics before anything is changed
FrameOutcomes(r0, d0) ==
    { [ r |-> IF checks /\ r0.ovf THEN FrameResult("Panic", d0, TRUE) ELSE r0,
        build |-> IF r0.ovf /\ ~checks THEN "release" ELSE build ] :
      checks \in Checks(r0.ovf) }

\* the same for decode_frame_information
InfoOutcomes(fi0) ==
    { [ fi |-> IF checks /\ fi0.ovf
               THEN [FrameInfoError("Panic") EXCEPT !.ovf = TRUE] ELSE fi0,
        build |-> IF fi0.ovf /\ ~checks THEN "release" ELSE build ] :
      checks \in Checks(fi0.ovf) }

(* ------------------------------------------------------------------ *)
(* Actions                                                             *)
(* ------------------------------------------------------------------ *)
\* the caller reads its input: a prefix, a frame sequence and a tail (a
\* prefix other than none comes with no tail)
LoadStream ==
    /\ pc = "start"
    /\ \E p \in Prefixes, ks \in FrameSeqs, t \in Tails :
          /\ p.name = "none" \/ t.name = "none"
          /\ stream' = [ pre |-> p.name, pre_len |-> Len(p.bytes), frames |-> ks,
                         tail |-> t.name ]
          /\ data' = p.bytes \o EncodeFrames(ks, 1) \o t.bytes
    /\ pc' = "idle"
    /\ UNCHANGED << build, dec, pos, last, w, output, f, fres, hf, wav, rd >>

\* decoder.decode_frame(&data[pos..], buffer) with a buffer of buffer_len
\* channels; the caller advances by the bytes consumed
DecodeFrame(buffer_len) ==
    /\ pc = "idle"
    /\ \E o \in FrameOutcomes(decode_frame(dec, SliceFrom(data, pos), buffer_len), dec) :
          /\ dec' = o.r.dec
          /\ build' = o.build
          /\ pos' = IF o.r.res = "Ok" THEN pos + o.r.size ELSE pos
          /\ pc' = IF o.r.res = "Panic" THEN "crashed" ELSE "idle"
          /\ last' = [ op |-> "decode_frame", res |-> o.r.res,
                       buffer_len |-> buffer_len, at |-> pos, size |-> o.r.size,
                       appended |-> o.r.appended, skipped |-> o.r.skipped,
                       start_bits |-> o.r.start_bits,
                       synthesised |-> o.r.synthesised,
                       changed |-> (o.r.dec # dec), num_samples |-> 0,
                       before |-> Positions(dec) ]
    /\ w' = NoLocals
    /\ output' = << >>
    /\ f' = NoFormat
    /\ fres' = NoFormat
    /\ UNCHANGED << stream, data, hf, wav, rd >>

\* decoder.reset()
Reset ==
    /\ pc = "idle"
    /\ dec' = reset(dec)
    /\ last' = [NoCall EXCEPT !.op = "reset", !.res = "Ok", !.changed = (reset(dec) # dec)]
    /\ w' = NoLocals
    /\ output' = << >>
    /\ f' = NoFormat
    /\ fres' = NoFormat
    /\ UNCHANGED << stream, data, build, pos, pc, hf, wav, rd >>

\* decode_whole up to its loop: reset, channel count, ID3v2 skip.  The call
\* is given all of data; the caller's stepping position starts over.
WholeStart(shape, fill) ==
    /\ pc = "idle"
    /\ pos' = 0
    /\ dec' = reset(dec)
    /\ output' = [i \in 1..Len(shape) |-> OutputArray(shape[i], fill)]
    /\ LET num_channels == IF Len(shape) = 2
                           THEN (IF shape[2] > 0 THEN 2 ELSE 1)
                           ELSE 1
           tag == get_id3v2tag_size(data)
       IN IF tag.res # "Ok"
          THEN /\ pc' = "idle"
               /\ w' = NoLocals
               /\ last' = [NoCall EXCEPT !.op = "decode_whole", !.res = tag.res]
          ELSE /\ pc' = "whole"
               /\ w' = [ num_channels |-> num_channels, read_pos |-> tag.size,
                         num_samples |-> 0, buffer |-> << "zero", "zero" >>,
                         first |-> TRUE ]
               /\ last' = [NoCall EXCEPT !.op = "decode_whole", !.res = "running"]
    /\ UNCHANGED << stream, data, build, f, fres, hf, wav, rd >>

\* output[ch][num_samples..num_samples + 1152].copy_from_slice(&buffer[ch])
\* for ch in 0..num_channels, in order; panics on a missing or short array
RECURSIVE copy_frames(_, _, _, _, _)
copy_frames(out, buffer, num_samples, num_channels, ch) ==
    IF ch >= num_channels THEN [panic |-> FALSE, out |-> out]
    ELSE IF ch >= Len(out) \/ num_samples + MP3_NUM_SAMPLES_PER_FRAME > out[ch + 1].len
         THEN [panic |-> TRUE, out |-> out]
    ELSE copy_frames(
             [out EXCEPT ![ch + 1].blk[num_samples \div MP3_NUM_SAMPLES_PER_FRAME + 1] =
                             buffer[ch + 1]],
             buffer, num_samples, num_channels, ch + 1)

\* the frame buffer after a decode_frame that returned r: the channels the
\* filter bank ran on hold samples, the others what they held
frame_buffer(buffer, r) ==
    [ch \in 1..MP3_MAX_NUM_CHANNELS |->
        IF r.res = "Ok" /\ ~r.skipped /\ ch <= r.num_channels
        THEN "pcm" ELSE buffer[ch]]

\* the rest of a loop iteration of decode_whole, after decode_frame
\* returned r into frame buffer `buffer` and the copy came out as copied
WholeStepReturns(r, buffer, copied) ==
    CASE r.res = "Ok" /\ ~copied.panic ->
              /\ output' = copied.out
              /\ w' = [w EXCEPT !.buffer = buffer,
                                !.read_pos = w.read_pos + r.size,
                                !.num_samples = w.num_samples + MP3_NUM_SAMPLES_PER_FRAME,
                                !.first = FALSE]
              /\ pc' = "whole"
              /\ last' = last
      [] r.res = "Ok" /\ copied.panic ->
              /\ output' = copied.out
              /\ w' = [w EXCEPT !.buffer = buffer, !.first = FALSE]
              /\ pc' = "crashed"
              /\ last' = [last EXCEPT !.res = "Panic"]
      [] r.res = "EndOfStream" ->
              /\ output' = output
              /\ w' = [w EXCEPT !.first = FALSE]
              /\ pc' = "idle"
              /\ last' = [last EXCEPT !.res = "Ok", !.size = w.read_pos,
                                      !.num_samples = w.num_samples]
      [] r.res = "Panic" ->
              /\ output' = output
              /\ w' = [w EXCEPT !.first = FALSE]
              /\ pc' = "crashed"
              /\ last' = [last EXCEPT !.res = "Panic"]
      [] OTHER ->
              /\ output' = output
              /\ w' = [w EXCEPT !.first = FALSE]
              /\ pc' = "idle"
              /\ last' = [last EXCEPT !.res = r.res]

\* one iteration of decode_whole's loop
WholeStep ==
    /\ pc = "whole"
    /\ IF w.read_pos > Len(data)
       THEN \* &data[read_pos..] out of range
            /\ pc' = "crashed"
            /\ last' = [last EXCEPT !.res = "Panic"]
            /\ UNCHANGED << dec, build, w, output >>
       ELSE \E o \in FrameOutcomes(decode_frame(dec, SliceFrom(data, w.read_pos),
                                               MP3_MAX_NUM_CHANNELS), dec) :
              /\ dec' = o.r.dec
              /\ build' = o.build
              /\ \E buffer \in { frame_buffer(w.buffer, o.r) } :
                   WholeStepReturns(o.r, buffer,
                       copy_frames(output, buffer, w.num_samples, w.num_channels, 0))
    /\ UNCHANGED << stream, data, pos, f, fres, hf, wav, rd >>

\* get_format_information up to its loop.  The caller probes the format
\* before decoding or after a decode_whole; a decode_frame or reset call
\* drops the format it got.
FormatStart ==
    /\ pc = "idle"
    /\ fres.res = "none"
    /\ last.op \in { "none", "decode_whole" }
    /\ pc' = "format"
    /\ f' = [ res |-> "running", num_channels |-> 1, num_samples |-> 0,
              sampling_rate |-> 44100, bit_rate |-> 128000, read_pos |-> 0 ]
    /\ UNCHANGED << stream, data, build, dec, pos, last, w, output, fres, hf, wav, rd >>

\* one iteration of get_format_information's loop
FormatStep ==
    /\ pc = "format"
    /\ IF UGt(f.read_pos, Len(data))
       THEN /\ pc' = "crashed"
            /\ f' = [f EXCEPT !.res = "Panic"]
            /\ fres' = [f EXCEPT !.res = "Panic"]
            /\ build' = build
       ELSE \E o \in InfoOutcomes(decode_frame_information(SliceFrom(data, f.read_pos))) :
              /\ build' = o.build
              /\ CASE o.fi.res = "Ok" ->
                      /\ f' = [f EXCEPT
                                 !.num_channels = IF o.fi.header.channel_mode # "Monoral"
                                                  THEN 2 ELSE f.num_channels,
                                 !.sampling_rate = o.fi.header.sampling_rate,
                                 !.bit_rate = o.fi.header.bit_rate,
                                 !.num_samples = f.num_samples + MP3_NUM_SAMPLES_PER_FRAME,
                                 !.read_pos = f.read_pos + o.fi.header_size
                                              + o.fi.maindata_size]
                      /\ pc' = "format"
                      /\ fres' = fres
                 [] o.fi.res = "EndOfStream" ->
                      /\ f' = [f EXCEPT !.res = "Ok"]
                      /\ fres' = [f EXCEPT !.res = "Ok"]
                      /\ pc' = "idle"
                 [] o.fi.res = "Panic" ->
                      /\ f' = [f EXCEPT !.res = "Panic"]
                      /\ fres' = [f EXCEPT !.res = "Panic"]
                      /\ pc' = "crashed"
                 [] OTHER ->
                      /\ f' = [f EXCEPT !.res = o.fi.res]
                      /\ fres' = [f EXCEPT !.res = o.fi.res]
                      /\ pc' = "idle"
    /\ UNCHANGED << stream, data, dec, pos, last, w, output, hf, wav, rd >>

\* what the caller's arrays hold before decode_whole
OutputFills == { "old" }

Next ==
    \/ LoadStream
    \/ \E n \in 0..MP3_MAX_NUM_CHANNELS : DecodeFrame(n)
    \/ Reset
    \/ \E shape \in OutputShapes, fill \in OutputFills : WholeStart(shape, fill)
    \/ WholeStep
    \/ FormatStart
    \/ FormatStep

Spec == Init /\ [][Next]_vars

(* ------------------------------------------------------------------ *)
(* Single frames of every header                                       *)
(* ------------------------------------------------------------------ *)
\* Layer III frames of every version, protection, bitrate code 1..14,
\* sampling rate, padding and channel mode
HeaderKinds ==
    { Frame(ver, 1, crc, br, sr, pad, cm, 0, 40, 0, 0, 0) :
        ver \in 0..1, crc \in 0..1, br \in 1..14, sr \in 0..2, pad \in 0..1,
        cm \in 0..3 }

\* the caller reads one frame: an MPEG-1 frame, possibly after bytes without
\* a sync word, or an MPEG-2 frame, possibly cut after its header
LoadFrame ==
    /\ pc = "start"
    /\ \E k \in HeaderKinds, lead \in { "none", "junk" }, tail \in { "none", "cut" } :
          /\ IF k.ver = 1 THEN tail = "none" ELSE lead = "none"
          /\ stream' = [ pre |-> lead, pre_len |-> IF lead = "junk" THEN 3 ELSE 0,
                         frames |-> << k >>, tail |-> tail ]
          /\ data' = (IF lead = "junk" THEN << 0, 255, 7 >> ELSE << >>)
                     \o (IF tail = "cut" THEN HeaderBytes(k) ELSE EncodeFrame(k, 1))
    /\ pc' = "idle"
    /\ UNCHANGED << build, dec, pos, last, w, output, f, fres, hf, wav, rd >>

NextFrame ==
    \/ LoadFrame
    \/ DecodeFrame(MP3_MAX_NUM_CHANNELS)

SpecFrame == Init /\ [][NextFrame]_vars

(* ------------------------------------------------------------------ *)
(* The stream as it was built, for stating what a call should return   *)
(* ------------------------------------------------------------------ *)
\* the frames the bytes hold, in order: those of the stream, after the one
\* inside the tag body when there is one
Layout ==
    IF stream.pre = "id3frame" THEN << MonoFrame >> \o stream.frames
    ELSE stream.frames

\* where the first of them starts
FirstStart == IF stream.pre = "id3frame" THEN ID3V2HEADER_SIZE ELSE stream.pre_len

\* where frame i of Layout starts
RECURSIVE StartOf(_)
StartOf(i) ==
    IF i = 1 THEN FirstStart ELSE StartOf(i - 1) + FrameBytes(Layout[i - 1])

\* the frames that start at or after offset at
FramesFrom(at) == { i \in DOMAIN Layout : StartOf(i) >= at }

\* the first frame at or after offset at, 0 when there is none
MetAt(at) ==
    IF FramesFrom(at) = { } THEN 0
    ELSE CHOOSE i \in FramesFrom(at) : \A j \in FramesFrom(at) : i <= j

\* an MPEG-1 Layer III frame
IsLayer3(k) == k.ver = 1 /\ k.lay = 1

\* the errors decode_frame returns
FrameErrors ==
    { "EndOfStream", "InvalidHeader", "InvalidSideInformation", "InsufficientBuffer" }

\* decode_whole has returned
WholeReturned == last.op = "decode_whole" /\ last.res # "running"

\* the caller's arrays have room for every frame of the stream in each
\* array decode_whole writes to
OutputFits ==
    /\ Len(output) >= 1
    /\ output[1].len = FullLen
    /\ Len(output) = 2 => output[2].len \in { 0, FullLen }

(* ------------------------------------------------------------------ *)
(* C1                                                                  *)
(* ------------------------------------------------------------------ *)
\* the size the claim gives the tag of an input of at least 10 bytes
ClaimedTagSize(d) ==
    IF At(d, 0) = 73 /\ At(d, 1) = 68 /\ At(d, 2) = 51
    THEN 10 + (At(d, 6) * 2097152 + At(d, 7) * 16384 + At(d, 8) * 128 + At(d, 9))
    ELSE 0

\* C1: for an input of at least 10 bytes get_id3v2tag_size returns
\* 10 + the sync-safe size when the input starts with "ID3" and 0 otherwise,
\* and decode_whole starts its frame search at that offset.
C1_TagSizeCountsHeader ==
    (pc = "whole" /\ w.first /\ Len(data) >= 10)
        => /\ get_id3v2tag_size(data).size = ClaimedTagSize(data)
           /\ w.read_pos = ClaimedTagSize(data)

(* ------------------------------------------------------------------ *)
(* C2                                                                  *)
(* ------------------------------------------------------------------ *)
\* C2: when decode_whole and get_format_information both succeed on the
\* same bytes, the sample count decode_whole returns equals the
\* num_samples of the format.
C2_SameSampleCount ==
    (WholeReturned /\ last.res = "Ok" /\ pc = "idle" /\ fres.res = "Ok")
        => last.num_samples = fres.num_samples

(* ------------------------------------------------------------------ *)
(* C3                                                                  *)
(* ------------------------------------------------------------------ *)
\* the input holds no sync word after its frames (and none before them)
NoStraySync == stream.pre = "none" /\ stream.tail \in { "none", "junk" }

\* C3: on an input whose k frames all decode and which holds no other sync
\* word (k = 0: no sync word at all, the empty input included) decode_whole
\* returns Ok with 1152 * k samples written.
C3_EndOfStreamEndsNormally ==
    (/\ WholeReturned
     /\ NoStraySync
     /\ \A i \in DOMAIN stream.frames : IsLayer3(stream.frames[i])
     /\ stream.frames = << >> \/ OutputFits)
        => /\ last.res = "Ok"
           /\ last.num_samples = MP3_NUM_SAMPLES_PER_FRAME * Len(stream.frames)

(* ------------------------------------------------------------------ *)
(* C4                                                                  *)
(* ------------------------------------------------------------------ *)
\* C4: a frame whose layer field is not Layer III is rejected with
\* InvalidFormat by decode_frame (none of its main data appended), by
\* decode_whole and by get_format_information.
C4_OtherLayersRejected ==
    /\ (/\ last.op = "decode_frame"
        /\ last.buffer_len = MP3_MAX_NUM_CHANNELS
        /\ MetAt(last.at) > 0
        /\ Layout[MetAt(last.at)].lay # 1)
           => last.res = "InvalidFormat" /\ last.appended = 0 /\ ~last.changed
    /\ (/\ stream.pre = "none"
        /\ stream.frames # << >>
        /\ stream.frames[1].lay # 1)
           => /\ WholeReturned => last.res = "InvalidFormat"
              /\ (fres.res # "none") => fres.res = "InvalidFormat"

(* ------------------------------------------------------------------ *)
(* C5                                                                  *)
(* ------------------------------------------------------------------ *)
\* decode_frame was called on a slice whose first sync word is that of an
\* MPEG-2 frame with an otherwise valid header
MetMpeg2 ==
    /\ last.op = "decode_frame"
    /\ MetAt(last.at) > 0
    /\ Layout[MetAt(last.at)].ver = 0

\* C5: a frame whose header is valid but for the MPEG-2 version bit fails
\* frame-information decoding with InvalidSideInformation, whatever bytes
\* follow the header (the rest of the frame, or nothing).
C5_Mpeg2IsInvalidSideInformation ==
    MetMpeg2 => last.res = "InvalidSideInformation"

C5_Witness ==
    /\ MetMpeg2
    /\ last.res = "InvalidSideInformation"
    /\ stream.tail = "cut"
    /\ Layout[1].cm = 0 /\ Layout[1].crc = 1 /\ Layout[1].br = 14

(* ------------------------------------------------------------------ *)
(* C6                                                                  *)
(* ------------------------------------------------------------------ *)
\* decode_frame was called with too few channels for the Layer III frame
\* it met
TooFewChannels ==
    /\ last.op = "decode_frame"
    /\ MetAt(last.at) > 0
    /\ IsLayer3(Layout[MetAt(last.at)])
    /\ last.buffer_len < FrameChannels(Layout[MetAt(last.at)])

\* C6: decode_frame returns InsufficientBuffer when the buffer has fewer
\* channels than the frame (2 for a non-mono frame, 1 for a mono one), and
\* whenever it returns an error the decoder is as it was before the call.
C6_ErrorsLeaveDecoderUnchanged ==
    /\ TooFewChannels => last.res = "InsufficientBuffer"
    /\ (last.op = "decode_frame" /\ last.res \in FrameErrors) => ~last.changed

C6_Witness ==
    /\ TooFewChannels
    /\ last.res = "InsufficientBuffer"
    /\ last.buffer_len = 1
    /\ last.at > 0
    /\ dec.maindata_buffer.write_pos > 0
    /\ dec.maindata_start > 0

(* ------------------------------------------------------------------ *)
(* C7                                                                  *)
(* ------------------------------------------------------------------ *)
\* C7: decode_whole on a stream with a non-mono frame, given an output with
\* one non-empty channel, returns InsufficientBuffer.
C7_WholeNeedsTwoChannels ==
    (/\ WholeReturned
     /\ NoStraySync
     /\ \A i \in DOMAIN stream.frames : IsLayer3(stream.frames[i])
     /\ \E i \in DOMAIN stream.frames : FrameChannels(stream.frames[i]) = 2
     /\ OutputFits
     /\ Len(output) = 1 \/ output[2].len = 0)
        => last.res = "InsufficientBuffer"

(* ------------------------------------------------------------------ *)
(* C8                                                                  *)
(* ------------------------------------------------------------------ *)
\* C8: when decode_whole decodes a stream of mono frames into two non-empty
\* arrays, output[1] holds after the call what it held before.
C8_MonoLeavesSecondArray ==
    (/\ WholeReturned
     /\ last.res = "Ok"
     /\ stream.frames # << >>
     /\ \A i \in DOMAIN stream.frames : stream.frames[i] = MonoFrame
     /\ Len(output) = 2
     /\ output[1].len > 0 /\ output[2].len > 0)
        => output[2] = OutputArray(output[2].len, "old")

(* ------------------------------------------------------------------ *)
(* C9                                                                  *)
(* ------------------------------------------------------------------ *)
\* C9: after reset() the decoder equals MP3Decoder::new(): reservoir bytes
\* all zero, write_pos, read cursor and maindata_start 0, synthesis buffers
\* cleared.  decode_frame is a function of the decoder and its arguments,
\* so what it returns afterwards is what a fresh instance returns.
C9_ResetEqualsNew ==
    last.op = "reset" => dec = MP3Decoder_new

C9_Witness ==
    /\ last.op = "reset"
    /\ last.changed
    /\ dec = MP3Decoder_new
    /\ pos > 0

(* ------------------------------------------------------------------ *)
(* C10                                                                 *)
(* ------------------------------------------------------------------ *)
\* decode_frame was called, with room for two channels, on a slice whose
\* first sync word is that of a whole MPEG-1 Layer III frame
MetWholeFrame ==
    /\ last.op = "decode_frame"
    /\ last.buffer_len = MP3_MAX_NUM_CHANNELS
    /\ MetAt(last.at) > 0
    /\ IsLayer3(Layout[MetAt(last.at)])

\* C10: for a frame of bitrate code 1..14 that starts p bytes into the
\* slice, decode_frame returns bytes_consumed = p + floor(144 * bit_rate /
\* sampling_rate) + padding, and appends that frame size minus 4, minus 17
\* (mono) or 32 (non-mono), minus 2 with error protection, to the reservoir.
C10_FrameSize ==
    MetWholeFrame =>
        /\ last.res = "Ok"
        /\ last.size = StartOf(MetAt(last.at)) - last.at
                       + FrameBytes(Layout[MetAt(last.at)])
        /\ last.appended = FrameBytes(Layout[MetAt(last.at)]) - 4
                           - (IF Layout[MetAt(last.at)].cm = 3 THEN 17 ELSE 32)
                           - 2 * Layout[MetAt(last.at)].crc

C10_Witness ==
    /\ MetWholeFrame
    /\ last.res = "Ok"
    /\ last.at = 0
    /\ stream.pre = "junk"
    /\ Layout[1].pad = 1 /\ Layout[1].crc = 1 /\ Layout[1].sr = 0
    /\ Layout[1].br = 9 /\ Layout[1].cm = 1
    /\ last.size = 3 + 418

(* ------------------------------------------------------------------ *)
(* Sync search on short byte sequences                                 *)
(* ------------------------------------------------------------------ *)
\* bound of the byte sequences searched
MaxSyncLen == 4

\* the bytes they are made of: 0x00, 0x0F, 0xF0, 0xFF
SyncBytes == { 0, 15, 240, 255 }

SyncInputs == UNION { [1..n -> SyncBytes] : n \in 0..MaxSyncLen }

\* the caller reads a short byte sequence
LoadBytes ==
    /\ pc = "start"
    /\ \E d \in SyncInputs : data' = d
    /\ pc' = "idle"
    /\ UNCHANGED << stream, build, dec, pos, last, w, output, f, fres, hf, wav, rd >>

\* find_sync_code(&data): res is "Some" or "None", at the index returned
FindSync ==
    /\ pc = "idle"
    /\ last.op = "none"
    /\ \E r \in { find_sync_code(data) } :
          last' = [NoCall EXCEPT !.op = "find_sync_code",
                                 !.res = IF r.some THEN "Some" ELSE "None",
                                 !.at = IF r.some THEN r.pos ELSE 0]
    /\ UNCHANGED << stream, data, build, dec, pos, pc, w, output, f, fres, hf, wav, rd >>

NextSync ==
    \/ LoadBytes
    \/ FindSync

SpecSync == Init /\ [][NextSync]_vars

(* ------------------------------------------------------------------ *)
(* C20                                                                 *)
(* ------------------------------------------------------------------ *)
\* the byte indices p with data[p] = 0xFF and the top four bits of
\* data[p+1] all 1
SyncCandidates ==
    { p \in 0..(Len(data) - 2) : At(data, p) = 255 /\ At(data, p + 1) \div 16 = 15 }

\* C20: find_sync_code returns the smallest byte index where a sync word
\* starts, and None exactly when there is none
C20_FindsFirstSync ==
    last.op = "find_sync_code" =>
        IF SyncCandidates = {} THEN last.res = "None"
        ELSE /\ last.res = "Some"
             /\ last.at \in SyncCandidates
             /\ \A p \in SyncCandidates : last.at <= p

\* the same while a byte follows the sync word's second byte, which is all
\* the search looks at
C20_FindsFirstSyncBeforeLastByte ==
    last.op = "find_sync_code" =>
        LET seen == { p \in SyncCandidates : p < Len(data) - 2 }
        IN IF seen = {} THEN last.res = "None"
           ELSE /\ last.res = "Some"
                /\ last.at \in seen
                /\ \A p \in seen : last.at <= p

(* ------------------------------------------------------------------ *)
(* Single frames of every granule information                          *)
(* ------------------------------------------------------------------ *)
\* mono and stereo MPEG-1 Layer III frames whose granules carry every
\* window-switching flag, block type and mixed-block flag, small and large
\* region counts, and big_values at and beyond half a granule
SideKinds ==
    { [ Frame(1, 1, 0, 9, 0, 0, cm, 0, 40, bigv, wsf, bt)
          EXCEPT !.mixed = mixed, !.r0 = rc[1], !.r1 = rc[2] ] :
        cm \in { 0, 3 }, bigv \in { 0, 288, 289, 511 }, wsf \in 0..1, bt \in 0..3,
        mixed \in 0..1, rc \in { << 0, 0 >>, << 5, 3 >> } }

\* the caller reads one such frame
LoadSide ==
    /\ pc = "start"
    /\ \E k \in SideKinds :
          /\ stream' = [NoStream EXCEPT !.frames = << k >>]
          /\ data' = EncodeFrame(k, 1)
    /\ pc' = "idle"
    /\ UNCHANGED << build, dec, pos, last, w, output, f, fres, hf, wav, rd >>

NextSide ==
    \/ LoadSide
    \/ DecodeFrame(MP3_MAX_NUM_CHANNELS)

SpecSide == Init /\ [][NextSide]_vars

(* ------------------------------------------------------------------ *)
(* C18                                                                 *)
(* ------------------------------------------------------------------ *)
\* what the parser returned for the frame the last decode_frame met
LastFrameInformation == decode_frame_information(SliceFrom(data, last.at))

\* granule g of a side information satisfies the block-type rules
BlockRules(g) ==
    /\ g.window_switching_flag => g.block_type \in { "Start", "Short", "Stop" }
    /\ ~g.window_switching_flag => g.block_type = "Normal"
    /\ g.block_type = "Short" =>
          /\ g.region0_count = (IF g.mixed_block_flag THEN 7 ELSE 8)
          /\ g.region1_count = 20 - g.region0_count

\* C18: every side information the parser returns has, in each granule, a
\* block type other than Normal exactly when window switching is set, and
\* region counts 8/12 (7/13 when mixed) for short blocks; window switching
\* with block-type bits 0 is InvalidSideInformation
C18_BlockTypeRules ==
    (last.op = "decode_frame" /\ MetAt(last.at) > 0) =>
        \A fi \in { LastFrameInformation } :
            /\ fi.res = "Ok" => \A k \in DOMAIN fi.side_info.gr :
                                    BlockRules(fi.side_info.gr[k])
            /\ (IsLayer3(Layout[MetAt(last.at)]) /\ Layout[MetAt(last.at)].ver = 1
                /\ Layout[MetAt(last.at)].wsf = 1 /\ Layout[MetAt(last.at)].bt = 0)
               => last.res = "InvalidSideInformation"

C18_Witness ==
    /\ last.op = "decode_frame"
    /\ last.res = "Ok"
    /\ MetAt(last.at) > 0
    /\ Layout[MetAt(last.at)].wsf = 1
    /\ Layout[MetAt(last.at)].bt = 2
    /\ Layout[MetAt(last.at)].mixed = 1
    /\ LastFrameInformation.side_info.gr[1].region0_count = 7
    /\ LastFrameInformation.side_info.gr[1].region1_count = 13

(* ------------------------------------------------------------------ *)
(* C19                                                                 *)
(* ------------------------------------------------------------------ *)
\* C19: every granule the side-information parser accepts has
\* 2*big_values <= 576, so decode_huffman's assertion never fails
C19_BigValuesFit ==
    (last.op = "decode_frame" /\ MetAt(last.at) > 0) =>
        /\ last.res # "Panic"
        /\ \A fi \in { LastFrameInformation } :
              fi.res = "Ok" => \A k \in DOMAIN fi.side_info.gr :
                  2 * fi.side_info.gr[k].big_values <= MP3_NUM_SAMPLES_PER_GRANULE

(* ------------------------------------------------------------------ *)
(* Frame sequences with back-pointers into the reservoir               *)
(* ------------------------------------------------------------------ *)
\* bound of these sequences
MaxMainFrames == 3

\* mono 32 kbit/s 48 kHz frames (75 bytes of main data each) whose
\* main_data_begin is 0, 1 or the largest, and whose granules are empty or
\* 40 bits long
MainKinds ==
    { Frame(1, 1, 0, 1, 1, 0, 3, mb, p23, 0, 0, 0) :
        mb \in { 0, 1, 511 }, p23 \in { 0, 40 } }

MainSeqs == UNION { [1..n -> MainKinds] : n \in 1..MaxMainFrames }

\* the bytes the input lacks at its end when its last frame is cut short
CutBytes == 10

\* the caller reads a sequence of such frames, whole or with the main data
\* of the last one cut short by the end of the input
LoadMain ==
    /\ pc = "start"
    /\ \E ks \in MainSeqs, t \in { "none", "short" } :
          /\ stream' = [NoStream EXCEPT !.frames = ks, !.tail = t]
          /\ data' = SubSeq(EncodeFrames(ks, 1), 1,
                            Len(EncodeFrames(ks, 1)) - (IF t = "short" THEN CutBytes ELSE 0))
    /\ pc' = "idle"
    /\ UNCHANGED << build, dec, pos, last, w, output, f, fres, hf, wav, rd >>

NextMain ==
    \/ LoadMain
    \/ DecodeFrame(MP3_MAX_NUM_CHANNELS)
    \/ Reset

SpecMain == Init /\ [][NextMain]_vars

\* a value modulo the reservoir size
ModBuffer(x) == x % MP3_MAINDATA_BUFFER_SIZE

(* ------------------------------------------------------------------ *)
(* C11                                                                 *)
(* ------------------------------------------------------------------ *)
\* decode_frame was called on a decoder as constructed or reset and met a
\* Layer III frame whose main_data_begin is not 0
FirstFrameWithBackPointer ==
    /\ last.op = "decode_frame"
    /\ last.before.fresh
    /\ MetAt(last.at) > 0
    /\ IsLayer3(Layout[MetAt(last.at)])
    /\ Layout[MetAt(last.at)].mb > 0

\* C11: on a fresh or reset decoder a first frame with main_data_begin > 0
\* returns Ok and its granule decode is skipped, the read cursor staying
\* where it was
C11_FirstFrameSkipped ==
    FirstFrameWithBackPointer =>
        /\ last.res = "Ok"
        /\ last.skipped
        /\ dec.maindata_buffer.read_pos_bits = last.before.read_pos_bits

\* what holds of it: Ok, and the granule loop runs from the cursor
\* main_data_begin bytes before the end of the empty reservoir
C11_FirstFrameReadsStaleBytes ==
    FirstFrameWithBackPointer =>
        /\ last.res = "Ok"
        /\ ~last.skipped
        /\ last.start_bits
              = 8 * (MP3_MAINDATA_BUFFER_SIZE - Layout[MetAt(last.at)].mb)

(* ------------------------------------------------------------------ *)
(* C15                                                                 *)
(* ------------------------------------------------------------------ *)
\* C15: after every decode_frame that returns Ok, maindata_start has
\* advanced by the bytes appended for the frame and is congruent to
\* write_pos modulo 4096
C15_MainDataStartFollowsWrites ==
    (last.op = "decode_frame" /\ last.res = "Ok") =>
        /\ ModBuffer(dec.maindata_start)
              = ModBuffer(last.before.maindata_start + last.appended)
        /\ ModBuffer(dec.maindata_start) = ModBuffer(dec.maindata_buffer.write_pos)

\* the same for the frames that are neither skipped nor cut short, in a
\* sequence with no such frame before them
C15_HoldsForWholeDecodedFrames ==
    (/\ last.op = "decode_frame" /\ last.res = "Ok" /\ ~last.skipped
     /\ ModBuffer(last.before.maindata_start) = ModBuffer(last.before.write_pos)
     /\ ~(stream.tail = "short" /\ MetAt(last.at) = Len(Layout)))
    => /\ ModBuffer(dec.maindata_start)
             = ModBuffer(last.before.maindata_start + last.appended)
       /\ ModBuffer(dec.maindata_start) = ModBuffer(dec.maindata_buffer.write_pos)

(* ------------------------------------------------------------------ *)
(* C14                                                                 *)
(* ------------------------------------------------------------------ *)
\* C14: when the granule decode of a frame is not skipped, it begins with
\* the read cursor byte-aligned, main_data_begin bytes before the write
\* position the reservoir had before the frame's main data was appended
C14_CursorAtBackPointer ==
    (/\ last.op = "decode_frame" /\ last.res = "Ok" /\ ~last.skipped
     /\ MetAt(last.at) > 0)
    => /\ last.start_bits % 8 = 0
       /\ last.start_bits \div 8
             = ModBuffer(last.before.write_pos - Layout[MetAt(last.at)].mb)

\* the same for the calls that found maindata_start congruent to write_pos
C14_HoldsWhileStartFollowsWrites ==
    (/\ last.op = "decode_frame" /\ last.res = "Ok" /\ ~last.skipped
     /\ MetAt(last.at) > 0
     /\ ModBuffer(last.before.maindata_start) = ModBuffer(last.before.write_pos))
    => /\ last.start_bits % 8 = 0
       /\ last.start_bits \div 8
             = ModBuffer(last.before.write_pos - Layout[MetAt(last.at)].mb)

(* ------------------------------------------------------------------ *)
(* Appending to the reservoir                                          *)
(* ------------------------------------------------------------------ *)
\* bound of the bytes appended since the reservoir was reset
MaxPutBytes == 8193

\* the sizes of the slices appended: the main data of a mono 320 kbit/s
\* 44.1 kHz frame without and with padding (1023, 1024), and up to the
\* whole ring
PutSizes == { 1023, 1024, 3072, 4095, 4096 }

\* the caller holds MaxPutBytes bytes to append
LoadPut ==
    /\ pc = "start"
    /\ data' = [i \in 1..MaxPutBytes |-> i % 256]
    /\ pc' = "idle"
    /\ UNCHANGED << stream, build, dec, pos, last, w, output, f, fres, hf, wav, rd >>

\* maindata_buffer.put_data(&data[pos..pos + n]); pos counts the bytes
\* appended since the reset
PutData(n) ==
    /\ pc = "idle"
    /\ pos + n <= MaxPutBytes
    /\ ~put_data_panics(dec.maindata_buffer, Slice(data, pos, pos + n))
    /\ dec' = [dec EXCEPT !.maindata_buffer = put_data(@, Slice(data, pos, pos + n))]
    /\ pos' = pos + n
    /\ last' = [NoCall EXCEPT !.op = "put_data", !.res = "Ok", !.size = n,
                              !.appended = n, !.before = Positions(dec)]
    /\ UNCHANGED << stream, data, build, pc, w, output, f, fres, hf, wav, rd >>

\* decoder.reset(), after which the caller appends from the start again
PutRestart ==
    /\ pc = "idle"
    /\ pos > 0
    /\ dec' = reset(dec)
    /\ pos' = 0
    /\ last' = [NoCall EXCEPT !.op = "reset", !.res = "Ok", !.before = Positions(dec)]
    /\ UNCHANGED << stream, data, build, pc, w, output, f, fres, hf, wav, rd >>

NextPut ==
    \/ LoadPut
    \/ \E n \in PutSizes : PutData(n)
    \/ PutRestart

SpecPut == Init /\ [][NextPut]_vars

(* ------------------------------------------------------------------ *)
(* C12                                                                 *)
(* ------------------------------------------------------------------ *)
\* C12: after put_data calls that appended pos bytes since the reset,
\* write_pos = pos mod 4096, so 0 <= write_pos < 4096, and each call
\* advances write_pos by its size modulo 4096
C12_WritePosIsTotalModSize ==
    last.op \in { "put_data", "reset" } =>
        /\ dec.maindata_buffer.write_pos = ModBuffer(pos)
        /\ dec.maindata_buffer.write_pos \in 0..(MP3_MAINDATA_BUFFER_SIZE - 1)
        /\ last.op = "put_data" =>
              dec.maindata_buffer.write_pos
                 = ModBuffer(last.before.write_pos + last.size)

\* what holds: write_pos is congruent to the bytes appended, and is 4096
\* rather than 0 when a call ends exactly at the ring's end
C12_WritePosCongruent ==
    last.op \in { "put_data", "reset" } =>
        /\ ModBuffer(dec.maindata_buffer.write_pos) = ModBuffer(pos)
        /\ dec.maindata_buffer.write_pos \in 0..MP3_MAINDATA_BUFFER_SIZE
        /\ dec.maindata_buffer.write_pos = MP3_MAINDATA_BUFFER_SIZE =>
              /\ last.op = "put_data"
              /\ last.size > 0
              /\ ModBuffer(last.before.write_pos + last.size) = 0

(* ------------------------------------------------------------------ *)
(* Scale factors and Huffman data of one granule                       *)
(* ------------------------------------------------------------------ *)
SCALEFACTOR_BITS_TABLE ==
    << << 0, 0, 0, 0, 3, 1, 1, 1, 2, 2, 2, 3, 3, 3, 4, 4 >>,
       << 0, 1, 2, 3, 0, 1, 2, 3, 1, 2, 3, 1, 2, 3, 2, 3 >> >>

SCALEFACTOR_DIVISION_START_INDEX_TABLE_LONG == << 0, 6, 11, 16, 21 >>

\* the bit width of a scale factor of table row index (0 or 1)
ScaleFactorWidth(granule, index) ==
    SCALEFACTOR_BITS_TABLE[index + 1][granule.scalefac_compress + 1]

\* the bits decode_granule_scale_factor reads for division i (0..3) of a
\* long block
long_division_bits(granule, second_granule, scfsi, i) ==
    IF scfsi[i + 1] /\ second_granule THEN 0
    ELSE (SCALEFACTOR_DIVISION_START_INDEX_TABLE_LONG[i + 2]
            - SCALEFACTOR_DIVISION_START_INDEX_TABLE_LONG[i + 1])
         * ScaleFactorWidth(granule, IF i < 2 THEN 0 ELSE 1)

\* the bits decode_granule_scale_factor reads in all
scale_factor_bits(granule, second_granule, scfsi) ==
    IF granule.block_type = "Short" /\ granule.window_switching_flag
    THEN IF granule.mixed_block_flag
         THEN 8 * ScaleFactorWidth(granule, 0) + 18 * ScaleFactorWidth(granule, 0)
              + 18 * ScaleFactorWidth(granule, 1)
         ELSE 18 * ScaleFactorWidth(granule, 0) + 18 * ScaleFactorWidth(granule, 1)
    ELSE long_division_bits(granule, second_granule, scfsi, 0)
         + long_division_bits(granule, second_granule, scfsi, 1)
         + long_division_bits(granule, second_granule, scfsi, 2)
         + long_division_bits(granule, second_granule, scfsi, 3)

\* the bits one mp3_huffman_decode_big_value call reads: none (table 0), a
\* one-bit code, or a long code with escape and sign bits
BigValueBits == { 0, 1, 30 }

\* the bits one mp3_huffman_decode_count1_data call reads: a one-bit code,
\* or a long code with four sign bits
Count1Bits == { 1, 10 }

\* positon_isin_count1data!
positon_isin_count1data(position, part2_start, part3_end) ==
    IF part3_end >= part2_start
    THEN position >= part2_start /\ position < part3_end
    ELSE position >= part2_start \/ position < part3_end

\* a granule's decode from the scale factors up to the count1 loop of
\* decode_huffman, every big-value pair reading big_bits bits
huffman_start(b, granule, second_granule, scfsi, big_bits) ==
    [ panic |-> 2 * granule.big_values > MP3_NUM_SAMPLES_PER_GRANULE,
      part2_start |-> b.read_pos_bits,
      part3_end |-> (b.read_pos_bits + granule.part2_3_length)
                        % MP3_MAINDATA_BUFFER_SIZE_BITS,
      i |-> 2 * granule.big_values,
      buf |-> get_bits(get_bits(b, scale_factor_bits(granule, second_granule, scfsi)),
                       granule.big_values * big_bits) ]

count1_writes_all(i) == { i, i + 1, i + 2, i + 3 }

\* the indices of output a count1 quadruple decoded at index i is written to
count1_writes(i) ==
    IF i + 2 < MP3_NUM_SAMPLES_PER_GRANULE THEN { i, i + 1, i + 2, i + 3 }
    ELSE { i, i + 1 }

huffman_end_noseek(b, big_values, part2_start, part3_end, i, position) ==
    [ i |-> IF /\ i > 2 * big_values
               /\ position # part3_end
               /\ ~positon_isin_count1data(position, part2_start, part3_end)
            THEN i - 4 ELSE i,
      buf |-> b ]

\* decode_huffman after the count1 loop: the last quadruple is dropped when
\* it ran past part3_end, the rest of output is zeroed from i on, and the
\* cursor is put at part3_end
huffman_end(b, big_values, part2_start, part3_end, i, position) ==
    [ i |-> IF /\ i > 2 * big_values
               /\ position # part3_end
               /\ ~positon_isin_count1data(position, part2_start, part3_end)
            THEN i - 4 ELSE i,
      buf |-> IF position # part3_end THEN seek(b, part3_end) ELSE b ]

\* the granules decoded: no, one, and all but one, all and more than all of
\* the 288 big-value pairs; no, some and the most part2_3_length bits; long,
\* short and mixed blocks; no and wide scale factors
HuffmanGranules ==
    { [ part2_3_length |-> p23, big_values |-> bigv, scalefac_compress |-> sfc,
        window_switching_flag |-> (bt[1] # "Normal"), block_type |-> bt[1],
        mixed_block_flag |-> bt[2] ] :
        p23 \in { 0, 100, 4095 }, bigv \in { 0, 1, 287, 288, 289 },
        sfc \in { 0, 15 },
        bt \in { << "Normal", FALSE >>, << "Short", FALSE >>, << "Short", TRUE >> } }

\* the read cursors a granule's decode starts from: near the start and near
\* the end of the ring
HuffmanStarts == { 5, 32700 }

\* decode_maindata's loop body for one granule of one channel begins:
\* decode_granule_scale_factor, then decode_huffman up to its count1 loop
HuffmanStart ==
    /\ pc = "start"
    /\ \E granule \in HuffmanGranules, start \in HuffmanStarts,
          big_bits \in BigValueBits, quad_bits \in Count1Bits,
          share \in BOOLEAN :
          \E h \in { huffman_start(seek(dec.maindata_buffer, start), granule, share,
                                   << share, FALSE, share, FALSE >>, big_bits) } :
             /\ dec' = [dec EXCEPT !.maindata_buffer = h.buf]
             /\ pc' = IF h.panic THEN "crashed" ELSE "huffman"
             /\ hf' = [ phase |-> IF h.panic THEN "panic" ELSE "count1",
                        granule |-> granule, quad_bits |-> quad_bits,
                        part2_start |-> h.part2_start, part3_end |-> h.part3_end,
                        i |-> h.i, position |-> h.buf.read_pos_bits,
                        at |-> -1, wrote |-> { } ]
    /\ UNCHANGED << stream, data, build, pos, last, w, output, f, fres, wav, rd >>

\* the count1 loop of decode_huffman goes on
Count1Continues ==
    /\ hf.i < MP3_NUM_SAMPLES_PER_GRANULE
    /\ positon_isin_count1data(hf.position, hf.part2_start, hf.part3_end)

\* one iteration of the count1 loop: a quadruple is read and written; a
\* write past the end of output panics
Count1Step ==
    /\ pc = "huffman"
    /\ hf.phase = "count1"
    /\ Count1Continues
    /\ \E b \in { get_bits(dec.maindata_buffer, hf.quad_bits) } :
          /\ dec' = [dec EXCEPT !.maindata_buffer = b]
          /\ IF \E j \in count1_writes(hf.i) : j >= MP3_NUM_SAMPLES_PER_GRANULE
             THEN /\ pc' = "crashed"
                  /\ hf' = [hf EXCEPT !.phase = "panic", !.at = hf.i,
                                      !.wrote = count1_writes(hf.i)]
             ELSE /\ pc' = pc
                  /\ hf' = [hf EXCEPT !.at = hf.i, !.wrote = count1_writes(hf.i),
                                      !.i = hf.i + 4, !.position = b.read_pos_bits]
    /\ UNCHANGED << stream, data, build, pos, last, w, output, f, fres, wav, rd >>

\* the count1 loop is over and decode_huffman returns
HuffmanReturn ==
    /\ pc = "huffman"
    /\ hf.phase = "count1"
    /\ ~Count1Continues
    /\ \E e \in { huffman_end(dec.maindata_buffer, hf.granule.big_values,
                              hf.part2_start, hf.part3_end, hf.i, hf.position) } :
          /\ dec' = [dec EXCEPT !.maindata_buffer = e.buf]
          /\ hf' = [hf EXCEPT !.phase = "returned", !.i = e.i]
    /\ pc' = "idle"
    /\ UNCHANGED << stream, data, build, pos, last, w, output, f, fres, wav, rd >>

NextHuffman ==
    \/ HuffmanStart
    \/ Count1Step
    \/ HuffmanReturn

SpecHuffman == Init /\ [][NextHuffman]_vars

(* ------------------------------------------------------------------ *)
(* C16                                                                 *)
(* ------------------------------------------------------------------ *)
\* C16: when decode_huffman returns, the read cursor is at
\* (part2_start + part2_3_length) mod 32768, whatever the scale factors,
\* big-value pairs and count1 quadruples consumed
C16_CursorAtPart3End ==
    hf.phase = "returned" =>
        dec.maindata_buffer.read_pos_bits
           = (hf.part2_start + hf.granule.part2_3_length)
                 % MP3_MAINDATA_BUFFER_SIZE_BITS

\* the bits the decode consumed before the final seek, counted round the ring
ConsumedBits ==
    (hf.position - hf.part2_start) % MP3_MAINDATA_BUFFER_SIZE_BITS

\* a return after more bits than part2_3_length were consumed, past the
\* ring's end
C16_Witness ==
    /\ hf.phase = "returned"
    /\ ConsumedBits > hf.granule.part2_3_length
    /\ hf.part3_end < hf.part2_start
    /\ hf.granule.part2_3_length > 0
    /\ dec.maindata_buffer.read_pos_bits = hf.part3_end

(* ------------------------------------------------------------------ *)
(* C17                                                                 *)
(* ------------------------------------------------------------------ *)
\* C17: every write of the count1 loop is to an index in 0..575; a
\* quadruple starting at index 574 writes indices 574 and 575 only, and the
\* loop then ends
C17_Count1WritesInside ==
    (hf.phase \in { "count1", "returned", "panic" }
     /\ 2 * hf.granule.big_values <= MP3_NUM_SAMPLES_PER_GRANULE) =>
        /\ hf.phase # "panic"
        /\ hf.wrote \subseteq 0..(MP3_NUM_SAMPLES_PER_GRANULE - 1)
        /\ hf.at = MP3_NUM_SAMPLES_PER_GRANULE - 2 =>
              /\ hf.wrote = { MP3_NUM_SAMPLES_PER_GRANULE - 2,
                              MP3_NUM_SAMPLES_PER_GRANULE - 1 }
              /\ hf.phase = "count1" => ~Count1Continues

C17_Witness ==
    /\ hf.phase = "returned"
    /\ hf.granule.big_values = 287
    /\ hf.at = 574
    /\ hf.wrote = { 574, 575 }

(* ------------------------------------------------------------------ *)
(* C27                                                                 *)
(* ------------------------------------------------------------------ *)
\* C27: a frame whose granule decode is skipped still returns Ok, and the
\* hybrid filter bank is run, rewriting the frame buffer, for every frame
\* for which decode_frame returns Ok
C27_FilterBankRunsOnEveryOkFrame ==
    last.op = "decode_frame" =>
        /\ last.skipped => last.res = "Ok"
        /\ last.res = "Ok" => last.synthesised

\* what holds: a skipped frame returns Ok, and the filter bank is run for
\* exactly the Ok frames that are not skipped
C27_FilterBankRunsUnlessSkipped ==
    last.op = "decode_frame" =>
        /\ last.skipped => last.res = "Ok"
        /\ last.synthesised <=> (last.res = "Ok" /\ ~last.skipped)

(* ------------------------------------------------------------------ *)
(* The command-line program (main.rs)                                  *)
(* ------------------------------------------------------------------ *)
\* the program reads a file of mono or of stereo frames
LoadWav ==
    /\ pc = "start"
    /\ \E k \in { MonoFrame, StereoFrame }, n \in 1..MaxFrames :
          /\ stream' = [NoStream EXCEPT !.frames = [i \in 1..n |-> k]]
          /\ data' = EncodeFrames([i \in 1..n |-> k], 1)
    /\ pc' = "idle"
    /\ UNCHANGED << build, dec, pos, last, w, output, f, fres, hf, wav, rd >>

\* output = vec![0.0; num_samples * num_channels], split at num_samples
\* into left and right, which are handed to decode_whole
MainDecode ==
    /\ fres.res = "Ok"
    /\ last.op = "none"
    /\ WholeStart(<< fres.num_samples, fres.num_samples * (fres.num_channels - 1) >>,
                  "zero")

\* the index of output the writer reads for sample smpl of channel ch
sample_index(format, smpl, ch) == smpl + ch * format.num_channels

\* one iteration of the writer's loops, channel inside sample: the sample
\* at sample_index is written; an index outside output panics
WriteSample ==
    /\ pc = "idle"
    /\ last.op = "decode_whole"
    /\ last.res = "Ok"
    /\ fres.res = "Ok"
    /\ wav.phase \in { "none", "writing" }
    /\ IF wav.phase = "none"
       THEN wav' = IF fres.num_samples = 0 THEN [NoWav EXCEPT !.phase = "done"]
                   ELSE [ phase |-> "writing", smpl |-> 0, ch |-> 0,
                          index |-> sample_index(fres, 0, 0) ]
       ELSE \E nch \in { IF wav.ch + 1 < fres.num_channels THEN wav.ch + 1 ELSE 0 } :
            \E nsmpl \in { IF nch = 0 THEN wav.smpl + 1 ELSE wav.smpl } :
               wav' = IF nsmpl >= fres.num_samples THEN [wav EXCEPT !.phase = "done"]
                      ELSE [ phase |-> "writing", smpl |-> nsmpl, ch |-> nch,
                             index |-> sample_index(fres, nsmpl, nch) ]
    /\ pc' = IF wav'.phase = "writing"
                /\ wav'.index >= fres.num_samples * fres.num_channels
             THEN "crashed" ELSE pc
    /\ UNCHANGED << stream, data, build, dec, pos, last, w, output, f, fres, hf, rd >>

NextWav ==
    \/ LoadWav
    \/ FormatStart
    \/ FormatStep
    \/ MainDecode
    \/ WholeStep
    \/ WriteSample

SpecWav == Init /\ [][NextWav]_vars

(* ------------------------------------------------------------------ *)
(* C23                                                                 *)
(* ------------------------------------------------------------------ *)
\* element smpl of the ch-th num_samples-long segment of output
SegmentIndex(format, smpl, ch) == ch * format.num_samples + smpl

\* C23: the WAV writer emits, for sample s of channel ch, element s of the
\* ch-th num_samples-long segment of the output array handed to decode_whole
C23_WriterReadsChannelSegments ==
    wav.phase = "writing" =>
        /\ pc # "crashed"
        /\ wav.index = SegmentIndex(fres, wav.smpl, wav.ch)

\* what holds: the first channel is read from its segment, and a second
\* channel from the first channel's segment, two samples on
C23_WriterReadsFirstSegment ==
    wav.phase = "writing" =>
        /\ pc # "crashed"
        /\ wav.ch = 0 => wav.index = wav.smpl
        /\ wav.ch = 1 => wav.index = wav.smpl + 2

(* ------------------------------------------------------------------ *)
(* Single frames of every bitrate index, free format included          *)
(* ------------------------------------------------------------------ *)
\* the bytes that follow the side information of a free-format frame
FreeBytes == 40

\* MPEG-1 Layer III frames of every bitrate index 0..14, sampling rate,
\* padding, protection, stereo and mono
RateKinds ==
    { Frame(1, 1, crc, br, sr, pad, cm, 0, 40, 0, 0, 0) :
        crc \in 0..1, br \in 0..14, sr \in 0..2, pad \in 0..1, cm \in { 0, 3 } }

\* the caller reads one such frame
LoadRate ==
    /\ pc = "start"
    /\ \E k \in RateKinds :
          /\ stream' = [NoStream EXCEPT !.frames = << k >>]
          /\ data' = IF k.br = 0
                     THEN HeaderBytes(k) \o SideBytes(k)
                          \o (IF k.crc = 1 THEN << 18, 52 >> ELSE << >>)
                          \o Fill(FreeBytes, 1)
                     ELSE EncodeFrame(k, 1)
    /\ pc' = "idle"
    /\ UNCHANGED << build, dec, pos, last, w, output, f, fres, hf, wav, rd >>

NextRate ==
    \/ LoadRate
    \/ DecodeFrame(MP3_MAX_NUM_CHANNELS)

SpecRate == Init /\ [][NextRate]_vars

(* ------------------------------------------------------------------ *)
(* C25                                                                 *)
(* ------------------------------------------------------------------ *)
\* C25: for every header decode_frame_header accepts, free format
\* included, get_maindata_size is non-negative and none of its
\* subtractions underflows, so no call panics or wraps on it
C25_MainDataSizeNeverUnderflows ==
    (last.op = "decode_frame" /\ last.at = 0) =>
        /\ \A h \in { decode_frame_header(data) } :
              h.some => /\ ~get_maindata_size(h).ovf
                        /\ get_maindata_size(h).size >= 0
        /\ last.res # "Panic"
        /\ build = "any"

\* the same for the headers whose bitrate index is not 0
C25_HoldsForFixedBitrates ==
    (last.op = "decode_frame" /\ last.at = 0 /\ stream.frames[1].br # 0) =>
        /\ \A h \in { decode_frame_header(data) } :
              h.some => /\ ~get_maindata_size(h).ovf
                        /\ get_maindata_size(h).size >= 0
        /\ last.res # "Panic"
        /\ build = "any"

(* ------------------------------------------------------------------ *)
(* decode_frame_information on inputs that end early                   *)
(* ------------------------------------------------------------------ *)
\* how many bytes past the header, side information and CRC an input keeps
MaxCutTail == 3

\* the caller holds the first n bytes of one 128 kbit/s frame, mono or
\* stereo, with or without protection
LoadCut ==
    /\ pc = "start"
    /\ \E crc \in 0..1, cm \in { 0, 3 } :
          \E k \in { Frame(1, 1, crc, 9, 0, 0, cm, 0, 40, 0, 0, 0) } :
             \E n \in 0..(MP3_FRAMEHEADER_SIZE + SideBytesLen(k) + 2 * crc + MaxCutTail) :
                /\ stream' = [NoStream EXCEPT !.frames = << k >>]
                /\ data' = SubSeq(EncodeFrame(k, 1), 1, n)
    /\ pc' = "idle"
    /\ UNCHANGED << build, dec, pos, last, w, output, f, fres, hf, wav, rd >>

\* one call of decode_frame_information on the whole input; the call's
\* header_size is kept in last.at and its maindata_size in last.size
FrameInformation ==
    /\ pc = "idle"
    /\ last.op = "none"
    /\ \E o \in InfoOutcomes(decode_frame_information(data)) :
          /\ build' = o.build
          /\ last' = [NoCall EXCEPT !.op = "decode_frame_information",
                                    !.res = o.fi.res,
                                    !.at = o.fi.header_size,
                                    !.size = o.fi.maindata_size]
          /\ pc' = IF o.fi.res = "Panic" THEN "crashed" ELSE "idle"
    /\ UNCHANGED << stream, data, dec, pos, w, output, f, fres, hf, wav, rd >>

NextCut ==
    \/ LoadCut
    \/ FrameInformation

SpecCut == Init /\ [][NextCut]_vars

(* ------------------------------------------------------------------ *)
(* C24                                                                 *)
(* ------------------------------------------------------------------ *)
\* where the header, the side information and the CRC of the input's
\* frame end
CutHeaderEnd == MP3_FRAMEHEADER_SIZE

CutFrontEnd ==
    MP3_FRAMEHEADER_SIZE + SideBytesLen(stream.frames[1]) + 2 * stream.frames[1].crc

\* what C24 says of one call on an input that begins with a frame
UnderRunReported ==
    /\ last.res # "Panic"
    /\ build = "any"
    /\ last.res = "Ok" => last.at + last.size <= Len(data)
    /\ (Len(data) >= 1 /\ Len(data) < CutHeaderEnd) => last.res = "InvalidHeader"
    /\ (Len(data) >= CutHeaderEnd /\ Len(data) < CutFrontEnd) =>
           last.res = "InvalidSideInformation"

\* C24: decode_frame_information either fails or returns sizes that fit
\* the input; an input that ends inside the header gives InvalidHeader,
\* one that ends inside the side information or the CRC gives
\* InvalidSideInformation, and nothing underflows or indexes out of range
C24_UnderRunIsAnError ==
    last.op = "decode_frame_information" => UnderRunReported

\* the same when the input keeps at least three bytes and does not end
\* inside the CRC
C24_HoldsOutsideCrcFromThreeBytes ==
    (/\ last.op = "decode_frame_information"
     /\ Len(data) >= 3
     /\ (Len(data) < CutFrontEnd - 2 * stream.frames[1].crc \/ Len(data) >= CutFrontEnd))
    => UnderRunReported

(* ------------------------------------------------------------------ *)
(* Frames whose CRC bytes vary                                         *)
(* ------------------------------------------------------------------ *)
\* the values the two CRC bytes take; EncodeFrame writes the first, the
\* last reads as a sync word
CrcPairs == { << 18, 52 >>, << 0, 0 >>, << 255, 251 >> }

\* 128 kbit/s frames, mono and stereo, with and without protection
CrcKinds == { Frame(1, 1, crc, 9, 0, 0, cm, 0, 40, 0, 0, 0) : crc \in 0..1, cm \in { 0, 3 } }

\* frame k with c in the two bytes decode_frame_information skips
EncodeFrameCrc(k, c) ==
    IF k.crc = 1
    THEN [ EncodeFrame(k, 1) EXCEPT
             ![MP3_FRAMEHEADER_SIZE + SideBytesLen(k) + 1] = c[1],
             ![MP3_FRAMEHEADER_SIZE + SideBytesLen(k) + 2] = c[2] ]
    ELSE EncodeFrame(k, 1)

RECURSIVE EncodeFramesCrc(_, _)
EncodeFramesCrc(ks, cs) ==
    IF ks = << >> THEN << >>
    ELSE EncodeFrameCrc(Head(ks), Head(cs)) \o EncodeFramesCrc(Tail(ks), Tail(cs))

\* the caller reads up to MaxFrames such frames
LoadCrc ==
    /\ pc = "start"
    /\ \E n \in 1..MaxFrames :
          \E ks \in [1..n -> CrcKinds], cs \in [1..n -> CrcPairs] :
             /\ \A i \in 1..n : ks[i].crc = 0 => cs[i] = << 18, 52 >>
             /\ stream' = [NoStream EXCEPT !.frames = ks]
             /\ data' = EncodeFramesCrc(ks, cs)
    /\ pc' = "idle"
    /\ UNCHANGED << build, dec, pos, last, w, output, f, fres, hf, wav, rd >>

NextCrc ==
    \/ LoadCrc
    \/ DecodeFrame(MP3_MAX_NUM_CHANNELS)

SpecCrc == Init /\ [][NextCrc]_vars

(* ------------------------------------------------------------------ *)
(* C21                                                                 *)
(* ------------------------------------------------------------------ *)
\* the input that differs from data in CRC bytes only: the same frames,
\* each CRC as EncodeFrame writes it
SameButCrc == EncodeFramesCrc(stream.frames, [i \in DOMAIN stream.frames |-> << 18, 52 >>])

\* the decoder that decode_frame calls on input d, from decoder d0 at
\* offset p, leave behind once they reach offset target
RECURSIVE DecoderAt(_, _, _, _)
DecoderAt(d, d0, p, target) ==
    IF p >= target THEN d0
    ELSE \* one call
         LET r == decode_frame(d0, SliceFrom(d, p), MP3_MAX_NUM_CHANNELS)
         IN IF r.res # "Ok" THEN d0 ELSE DecoderAt(d, r.dec, p + r.size, target)

\* the last call met a frame with a CRC
MetCrcFrame == MetAt(last.at) # 0 /\ Layout[MetAt(last.at)].crc = 1

\* where the main data of the frame the last call met begins
AfterCrc ==
    last.at + MP3_FRAMEHEADER_SIZE + SideBytesLen(Layout[MetAt(last.at)]) + 2

\* C21: a call of decode_frame returns the same result and size and leaves
\* the same decoder as the same calls on the input that differs in CRC
\* bytes only; the 2 CRC bytes are part of the size returned and the bytes
\* appended to the reservoir are those after them
C21_CrcBytesNeverInspected ==
    last.op = "decode_frame" =>
        /\ \A d0 \in { DecoderAt(SameButCrc, MP3Decoder_new, 0, last.at) } :
              \A r \in { decode_frame(d0, SliceFrom(SameButCrc, last.at), last.buffer_len) } :
                 /\ r.res = last.res
                 /\ r.size = last.size
                 /\ r.dec = dec
        /\ (last.res = "Ok" /\ MetCrcFrame) =>
              /\ last.size = AfterCrc - last.at + last.appended
              /\ Slice(dec.maindata_buffer.buffer, last.before.write_pos,
                       last.before.write_pos + last.appended)
                 = Slice(data, AfterCrc, last.at + last.size)

\* a second frame, its CRC bytes not those of the other input, is decoded
C21_Witness ==
    /\ last.op = "decode_frame"
    /\ last.res = "Ok"
    /\ last.at > 0
    /\ last.appended > 0
    /\ MetCrcFrame
    /\ Slice(data, AfterCrc - 2, AfterCrc) # Slice(SameButCrc, AfterCrc - 2, AfterCrc)

(* ------------------------------------------------------------------ *)
(* The reservoir read back: put_data, seek, get_bits                   *)
(* ------------------------------------------------------------------ *)
\* BitReader::read_u32(n) at bit position from of slice d, n <= 32 bits
\* that lie in the slice: the u32 as its 32 bits, most significant first
read_u32(d, from, n) ==
    [ i \in 1..32 |->
        IF i <= 32 - n THEN 0
        ELSE \* bit from + i - (32 - n) - 1 of the slice
             LET k == from + i - (32 - n) - 1
             IN (d[(k \div 8) + 1] \div Pow2(7 - (k % 8))) % 2 ]

\* what MP3MainDataBuffer::get_bits returns.  panic: breader.skip fails
\* past the slice's end; ovf: the shift of tail is by 32 or more, and ret
\* is then what the shift by the amount modulo 32 gives
get_bits_ret(b, nbits) ==
    IF nbits = 0 THEN [ panic |-> FALSE, ovf |-> FALSE, ret |-> [i \in 1..32 |-> 0] ]
    ELSE IF b.read_pos_bits > MP3_MAINDATA_BUFFER_SIZE_BITS
    THEN [ panic |-> TRUE, ovf |-> FALSE, ret |-> << >> ]
    ELSE IF b.read_pos_bits + nbits >= MP3_MAINDATA_BUFFER_SIZE_BITS
    THEN LET tail_bits == MP3_MAINDATA_BUFFER_SIZE_BITS - b.read_pos_bits
             tail == read_u32(b.buffer, b.read_pos_bits, tail_bits)
             remain_bits == nbits - tail_bits
             head == read_u32(b.buffer, 0, remain_bits)
             shift == remain_bits % 32
         IN [ panic |-> FALSE,
              ovf |-> remain_bits >= 32,
              ret |-> [ i \in 1..32 |->
                          IF (IF i + shift <= 32 THEN tail[i + shift] ELSE 0) = 1
                          THEN 1 ELSE head[i] ] ]
    ELSE [ panic |-> FALSE, ovf |-> FALSE,
           ret |-> read_u32(b.buffer, b.read_pos_bits, nbits) ]

\* the first put_data of a new reservoir
PutPrefix(n) ==
    /\ last.op = "none"
    /\ PutData(n)

\* the put_data whose bytes are read back
PutWritten(n) ==
    /\ last.op = "put_data"
    /\ last.before.fresh
    /\ PutData(n)

\* maindata_buffer.seek(8 * w), w the write position the bytes went to
SeekWritten ==
    /\ pc = "idle"
    /\ last.op = "put_data"
    /\ ~last.before.fresh
    /\ rd.phase = "none"
    /\ dec' = [dec EXCEPT !.maindata_buffer = seek(@, 8 * last.before.write_pos)]
    /\ rd' = [NoRead EXCEPT !.phase = "seeked"]
    /\ UNCHANGED << stream, data, build, pos, pc, last, w, output, f, fres, hf, wav >>

\* maindata_buffer.get_bits(n), while bits written by the last put_data
\* are left
GetBits(n) ==
    /\ pc = "idle"
    /\ rd.phase \in { "seeked", "read" }
    /\ rd.total + n <= 8 * last.size
    /\ \E r \in { get_bits_ret(dec.maindata_buffer, n) } :
          \E checks \in Checks(r.ovf) :
             IF r.panic \/ (r.ovf /\ checks)
             THEN /\ pc' = "crashed"
                  /\ rd' = [ phase |-> "panic", from |-> dec.maindata_buffer.read_pos_bits,
                             nbits |-> n, ret |-> << >>, total |-> rd.total ]
                  /\ UNCHANGED << dec, build >>
             ELSE /\ pc' = pc
                  /\ rd' = [ phase |-> "read", from |-> dec.maindata_buffer.read_pos_bits,
                             nbits |-> n, ret |-> r.ret, total |-> rd.total + n ]
                  /\ dec' = [dec EXCEPT !.maindata_buffer = get_bits(@, n)]
                  /\ build' = IF r.ovf THEN "release" ELSE build
    /\ UNCHANGED << stream, data, pos, last, w, output, f, fres, hf, wav >>

NextRing ==
    \/ LoadPut
    \/ \E n \in { 100, 4090, 4093, 4096 } : PutPrefix(n)
    \/ \E n \in { 3, 12 } : PutWritten(n)
    \/ SeekWritten
    \/ \E n \in { 0, 1, 7, 8, 17, 32 } : GetBits(n)

SpecRing == Init /\ [][NextRing]_vars

(* ------------------------------------------------------------------ *)
(* C22                                                                 *)
(* ------------------------------------------------------------------ *)
\* the bytes the last put_data was given
Written == Slice(data, pos - last.size, pos)

\* ring byte i is one the last put_data wrote
InWritten(i) ==
    \E j \in 0..(last.size - 1) :
        i = (last.before.write_pos + j) % MP3_MAINDATA_BUFFER_SIZE

\* the ring before the last put_data: the first put_data's bytes, then zeros
RingBefore(i) == IF i < pos - last.size THEN At(data, i) ELSE 0

\* the last put_data left the other ring bytes as they were
OthersUnchanged ==
    \A i \in 0..(MP3_MAINDATA_BUFFER_SIZE - 1) :
        ~InWritten(i) => At(dec.maindata_buffer.buffer, i) = RingBefore(i)

\* the last get_bits returned the next nbits written bits, most significant
\* first
ReturnsWritten ==
    rd.ret = read_u32(Written, rd.total - rd.nbits, rd.nbits)

\* the last get_bits moved the cursor by nbits modulo the ring's bits
CursorAdvanced ==
    dec.maindata_buffer.read_pos_bits
    = IF rd.nbits = 0 THEN rd.from
      ELSE (rd.from + rd.nbits) % MP3_MAINDATA_BUFFER_SIZE_BITS

\* C22: the bytes put_data appends at write position w, wrapping past the
\* ring's end, leave the other ring bytes unchanged, and get_bits(n) calls
\* from bit 8 * w return them in order, most significant bit first, each
\* call moving the cursor by n modulo 32768 (get_bits(0): 0, no move); no
\* call panics or overflows
C22_ReservoirRoundTrip ==
    /\ (last.op = "put_data" /\ ~last.before.fresh) => OthersUnchanged
    /\ rd.phase # "panic"
    /\ build = "any"
    /\ rd.phase = "read" => ReturnsWritten /\ CursorAdvanced

\* the same, but for a 32-bit read with the cursor at the ring's end, where
\* seek(8 * w) puts it when write_pos is 4096
C22_HoldsBelowRingEnd ==
    /\ (last.op = "put_data" /\ ~last.before.fresh) => OthersUnchanged
    /\ rd.phase = "panic" =>
           rd.from = MP3_MAINDATA_BUFFER_SIZE_BITS /\ rd.nbits = 32
    /\ rd.phase = "read" => ReturnsWritten /\ CursorAdvanced

(* ------------------------------------------------------------------ *)
(* The loops of decode_whole and get_format_information                *)
(* ------------------------------------------------------------------ *)
\* the caller reads up to MaxFrames frames, the last one whole, or cut
\* after its CRC, inside its CRC or side information, or after three
\* header bytes
LoadLoop ==
    /\ pc = "start"
    /\ \E n \in 1..MaxFrames :
          \E ks \in [1..n -> CrcKinds] :
             \E cut \in { 0, PayloadLen(ks[n]), PayloadLen(ks[n]) + 1,
                          PayloadLen(ks[n]) + 2, FrameBytes(ks[n]) - 3 } :
                /\ stream' = [NoStream EXCEPT !.frames = ks,
                                              !.tail = IF cut = 0 THEN "none" ELSE "cut"]
                /\ data' = SubSeq(EncodeFrames(ks, 1), 1, Len(EncodeFrames(ks, 1)) - cut)
    /\ pc' = "idle"
    /\ UNCHANGED << build, dec, pos, last, w, output, f, fres, hf, wav, rd >>

NextLoop ==
    \/ LoadLoop
    \/ WholeStart(<< FullLen, FullLen >>, "zero")
    \/ WholeStep
    \/ FormatStart
    \/ FormatStep

\* an iteration of either loop that can run is run
SpecLoop ==
    Init /\ [][NextLoop]_vars /\ WF_vars(WholeStep) /\ WF_vars(FormatStep)

(* ------------------------------------------------------------------ *)
(* C26                                                                 *)
(* ------------------------------------------------------------------ *)
\* one of the two loops is running
InLoop == pc \in { "whole", "format" }

\* an iteration that goes on to the next moved the read position by at
\* least the header and the mono side information
LoopAdvances ==
    /\ (pc = "whole" /\ pc' = "whole") =>
           w'.read_pos >= w.read_pos + MP3_FRAMEHEADER_SIZE + MP3_SIDEINFORMATION_SIZE_MONO
    /\ (pc = "format" /\ pc' = "format") =>
           f'.read_pos >= f.read_pos + MP3_FRAMEHEADER_SIZE + MP3_SIDEINFORMATION_SIZE_MONO

\* the read position of a running loop is within the input
LoopWithinInput ==
    /\ pc = "whole" => w.read_pos >= 0 /\ w.read_pos <= Len(data)
    /\ pc = "format" => f.read_pos >= 0 /\ f.read_pos <= Len(data)

\* C26: decode_whole and get_format_information terminate by reaching a
\* failed sync search or an error: while a loop runs its read position is
\* never beyond the end of the input, and no iteration panics
C26_LoopsEndWithinInput ==
    /\ LoopWithinInput
    /\ pc # "crashed"

\* the same actions, an iteration of a running loop being run; a step is
\* enabled whenever its loop is running, so this is the weak fairness of
\* SpecLoop with ENABLED written out
SpecLoopRuns ==
    /\ Init /\ [][NextLoop]_vars
    /\ ([]<>(pc # "whole") \/ []<><<WholeStep>>_vars)
    /\ ([]<>(pc # "format") \/ []<><<FormatStep>>_vars)

\* the loops stop, by a return or a panic, and every iteration that goes
\* on moved the read position by at least 21 bytes
C26_LoopsStop ==
    /\ [][LoopAdvances]_vars
    /\ (InLoop ~> pc \in { "idle", "crashed" })

\* but for a last frame that ends inside its CRC, the read position stays
\* within the input and the loops return
C26_ReturnsUnlessCutInCrc ==
    LET last_frame == stream.frames[Len(stream.frames)]
        cut_in_crc ==
            /\ last_frame.crc = 1
            /\ Len(EncodeFrames(stream.frames, 1)) - Len(data)
                  \in { PayloadLen(last_frame) + 1, PayloadLen(last_frame) + 2 }
    IN (stream.frames # << >> /\ ~cut_in_crc) => (LoopWithinInput /\ pc # "crashed")

====
